---- MODULE Spec2Model ----
(***************************************************************************)
(* Plant-economics calculation engine: the pure numeric functions of       *)
(* src/calculations/*.py.  A state is one call: the arguments (input), the *)
(* function that ran (fn) and what it returned or raised (result).         *)
(*                                                                         *)
(* Numbers are exact rationals <<n, d>> with d > 0 in lowest terms, so the *)
(* arithmetic is that of the reals the formulas are written for; the       *)
(* rounding of IEEE doubles is not modelled.  Python's None is <<>>.       *)
(***************************************************************************)
EXTENDS Integers, Sequences, FiniteSets, TLC

VARIABLES input, fn, result, locals

vars == <<input, fn, result, locals>>

-----------------------------------------------------------------------------
(* Bounds of the explored inputs.                                          *)

MaxCost == 5

MaxLife == 5

-----------------------------------------------------------------------------
(* Exact rational arithmetic.                                              *)

None == <<>>

Abs(n) == IF n < 0 THEN -n ELSE n

RECURSIVE GCD(_, _)
GCD(a, b) == IF b = 0 THEN a ELSE GCD(b, a % b)

Norm(n, d) ==
    LET s == IF d < 0 THEN -1 ELSE 1
        g == GCD(Abs(n), Abs(d))
    IN  <<(s * n) \div g, (s * d) \div g>>

R(n) == <<n, 1>>

Frac(n, d) == Norm(n, d)

RNeg(a) == <<-a[1], a[2]>>

RAdd(a, b) ==
    LET g == GCD(a[2], b[2])
    IN  Norm(a[1] * (b[2] \div g) + b[1] * (a[2] \div g), (a[2] \div g) * b[2])

RSub(a, b) == RAdd(a, RNeg(b))

RMul(a, b) ==
    LET g1 == GCD(Abs(a[1]), b[2])
        g2 == GCD(Abs(b[1]), a[2])
    IN  Norm((a[1] \div g1) * (b[1] \div g2), (a[2] \div g2) * (b[2] \div g1))

RInv(a) == Norm(a[2], a[1])

RDiv(a, b) == RMul(a, RInv(b))

RAbs(a) == <<Abs(a[1]), a[2]>>

RLt(a, b) ==
    LET g == GCD(a[2], b[2])
    IN  a[1] * (b[2] \div g) < b[1] * (a[2] \div g)

RLe(a, b) == ~RLt(b, a)

RIsZero(a) == a[1] = 0

RECURSIVE RPowNat(_, _)
RPowNat(a, k) == IF k = 0 THEN R(1) ELSE RMul(a, RPowNat(a, k - 1))

(* a ** k for an integer k; the caller rules out 0 ** negative.            *)
RPow(a, k) == IF k >= 0 THEN RPowNat(a, k) ELSE RInv(RPowNat(a, -k))

RECURSIVE RSum(_)
RSum(s) == IF s = <<>> THEN R(0) ELSE RAdd(Head(s), RSum(Tail(s)))

Last(s) == s[Len(s)]

Raise(exc) == [outcome |-> "raise", exc |-> exc]

-----------------------------------------------------------------------------
(* src/calculations/depreciation.py                                        *)

RECURSIVE sl_rows(_, _, _, _)
sl_rows(year, useful_life, purchase_cost, annual_depreciation) ==
    IF year > useful_life THEN <<>>
    ELSE LET cum_dep == RMul(annual_depreciation, R(year))
         IN  <<[Year |-> year,
                Annual_Depreciation |-> annual_depreciation,
                Cumulative_Depreciation |-> cum_dep,
                Book_Value |-> RSub(purchase_cost, cum_dep)]>>
             \o sl_rows(year + 1, useful_life, purchase_cost, annual_depreciation)

sl_annual_wrong(purchase_cost, salvage_value, useful_life) ==
    RDiv(purchase_cost, R(useful_life))

sl_annual(purchase_cost, salvage_value, useful_life) ==
    RDiv(RSub(purchase_cost, salvage_value), R(useful_life))

straight_line_depreciation(purchase_cost, salvage_value, useful_life) ==
    IF useful_life = 0 THEN Raise("ZeroDivisionError")
    ELSE LET annual_depreciation == sl_annual(purchase_cost, salvage_value, useful_life)
         IN  [outcome |-> "ok",
              method |-> "Straight Line",
              annual_depreciation |-> annual_depreciation,
              total_depreciation |-> RSub(purchase_cost, salvage_value),
              depreciation_table |->
                  sl_rows(1, useful_life, purchase_cost, annual_depreciation)]

db_year_depreciation_nocap(current_book_value, depreciation_rate, salvage_value) ==
    RMul(current_book_value, depreciation_rate)

db_year_depreciation(current_book_value, depreciation_rate, salvage_value) ==
    LET year_depreciation == RMul(current_book_value, depreciation_rate)
    IN  IF RLt(RSub(current_book_value, year_depreciation), salvage_value)
        THEN RSub(current_book_value, salvage_value)
        ELSE year_depreciation

RECURSIVE db_rows(_, _, _, _, _, _)
db_rows(year, useful_life, current_book_value, purchase_cost, salvage_value, depreciation_rate) ==
    IF year > useful_life THEN <<>>
    ELSE LET year_depreciation ==
                 db_year_depreciation(current_book_value, depreciation_rate, salvage_value)
             new_book_value == RSub(current_book_value, year_depreciation)
         IN  <<[Year |-> year,
                Annual_Depreciation |-> year_depreciation,
                Cumulative_Depreciation |-> RSub(purchase_cost, new_book_value),
                Book_Value |-> new_book_value]>>
             \o db_rows(year + 1, useful_life, new_book_value, purchase_cost,
                        salvage_value, depreciation_rate)

declining_balance_depreciation(purchase_cost, salvage_value, useful_life, depreciation_rate) ==
    IF depreciation_rate = None /\ useful_life = 0 THEN Raise("ZeroDivisionError")
    ELSE LET rate == IF depreciation_rate = None
                     THEN Frac(2, useful_life)
                     ELSE depreciation_rate
             table == db_rows(1, useful_life, purchase_cost, purchase_cost,
                              salvage_value, rate)
         IN  [outcome |-> "ok",
              method |-> "Declining Balance",
              depreciation_rate |-> rate,
              total_depreciation |->
                  RSum([i \in 1..Len(table) |-> table[i].Annual_Depreciation]),
              depreciation_table |-> table]

RECURSIVE SumRange(_, _)
SumRange(lo, hi) == IF lo > hi THEN 0 ELSE lo + SumRange(lo + 1, hi)

syd_year_fraction_wrong(useful_life, year, sum_of_years) ==
    Frac(useful_life - year, sum_of_years)

syd_year_fraction(useful_life, year, sum_of_years) ==
    LET remaining_years == useful_life - year + 1
    IN  Frac(remaining_years, sum_of_years)

RECURSIVE syd_rows(_, _, _, _, _, _)
syd_rows(year, useful_life, cumulative_depreciation, purchase_cost, total_depreciation, sum_of_years) ==
    IF year > useful_life THEN <<>>
    ELSE LET year_fraction == syd_year_fraction(useful_life, year, sum_of_years)
             year_depreciation == RMul(total_depreciation, year_fraction)
             new_cumulative == RAdd(cumulative_depreciation, year_depreciation)
         IN  <<[Year |-> year,
                Annual_Depreciation |-> year_depreciation,
                Cumulative_Depreciation |-> new_cumulative,
                Book_Value |-> RSub(purchase_cost, new_cumulative)]>>
             \o syd_rows(year + 1, useful_life, new_cumulative, purchase_cost,
                         total_depreciation, sum_of_years)

sum_of_years_digits_depreciation(purchase_cost, salvage_value, useful_life) ==
    LET total_depreciation == RSub(purchase_cost, salvage_value)
        sum_of_years == SumRange(1, useful_life)
    IN  [outcome |-> "ok",
         method |-> "Sum of Years Digits",
         sum_of_years |-> sum_of_years,
         total_depreciation |-> total_depreciation,
         depreciation_table |->
             syd_rows(1, useful_life, R(0), purchase_cost, total_depreciation,
                      sum_of_years)]

RECURSIVE sf_rows(_, _, _, _, _, _)
sf_rows(year, useful_life, fund_balance, purchase_cost, annual_payment, interest_rate) ==
    IF year > useful_life THEN <<>>
    ELSE LET new_balance ==
                 RMul(RAdd(fund_balance, annual_payment), RAdd(R(1), interest_rate))
         IN  <<[Year |-> year,
                Annual_Payment |-> annual_payment,
                Sinking_Fund_Balance |-> new_balance,
                Book_Value |-> RSub(purchase_cost, new_balance)]>>
             \o sf_rows(year + 1, useful_life, new_balance, purchase_cost,
                        annual_payment, interest_rate)

(* Lines 150-156: None when the payment formula divides by zero.           *)
sf_annual_payment(purchase_cost, salvage_value, useful_life, interest_rate) ==
    LET total_depreciation == RSub(purchase_cost, salvage_value)
        one_plus == RAdd(R(1), interest_rate)
    IN  IF RIsZero(interest_rate)
        THEN IF useful_life = 0 THEN None
             ELSE RDiv(total_depreciation, R(useful_life))
        ELSE IF RIsZero(one_plus) /\ useful_life < 0 THEN None
        ELSE LET denom == RSub(RPow(one_plus, useful_life), R(1))
             IN  IF RIsZero(denom) THEN None
                 ELSE RDiv(RMul(total_depreciation, interest_rate), denom)

(* Lines 158-181: the table the function has built when it reaches its     *)
(* return statement.                                                       *)
sf_locals(purchase_cost, salvage_value, useful_life, interest_rate) ==
    LET annual_payment ==
            sf_annual_payment(purchase_cost, salvage_value, useful_life, interest_rate)
    IN  IF annual_payment = None THEN <<>>
        ELSE sf_rows(1, useful_life, R(0), purchase_cost, annual_payment,
                     interest_rate)

(* Line 187 reads total_depriciation, a name that is bound nowhere: the    *)
(* return statement raises NameError on every call that reaches it.        *)
sinking_fund_depreciation(purchase_cost, salvage_value, useful_life, interest_rate) ==
    IF sf_annual_payment(purchase_cost, salvage_value, useful_life, interest_rate) = None
    THEN Raise("ZeroDivisionError")
    ELSE Raise("NameError")

-----------------------------------------------------------------------------
(* Calls of the depreciation engine.                                       *)

Rates == {Frac(-1, 2), R(0), Frac(1, 10), Frac(1, 2), R(1), R(2)}

DepInputs ==
    [engine : {"depreciation"},
     purchase_cost : 0..MaxCost,
     salvage_value : 0..MaxCost,
     useful_life : (-1)..MaxLife,
     rate : Rates \cup {None}]

InitDepreciation ==
    /\ input \in DepInputs
    /\ fn = "none"
    /\ result = [outcome |-> "none"]
    /\ locals = <<>>

Ready(engine) == fn = "none" /\ input.engine = engine

(* The functions without a rate parameter are called once per             *)
(* (cost, salvage, life), from the inputs whose rate is None.              *)
StraightLine ==
    /\ Ready("depreciation")
    /\ input.rate = None
    /\ fn' = "straight_line_depreciation"
    /\ result' = straight_line_depreciation(R(input.purchase_cost),
                     R(input.salvage_value), input.useful_life)
    /\ UNCHANGED <<input, locals>>

DecliningBalance ==
    /\ Ready("depreciation")
    /\ fn' = "declining_balance_depreciation"
    /\ result' = declining_balance_depreciation(R(input.purchase_cost),
                     R(input.salvage_value), input.useful_life, input.rate)
    /\ UNCHANGED <<input, locals>>

SumOfYearsDigits ==
    /\ Ready("depreciation")
    /\ input.rate = None
    /\ fn' = "sum_of_years_digits_depreciation"
    /\ result' = sum_of_years_digits_depreciation(R(input.purchase_cost),
                     R(input.salvage_value), input.useful_life)
    /\ UNCHANGED input
    /\ UNCHANGED locals

SinkingFund ==
    /\ Ready("depreciation")
    /\ input.rate # None
    /\ fn' = "sinking_fund_depreciation"
    /\ result' = sinking_fund_depreciation(R(input.purchase_cost),
                     R(input.salvage_value), input.useful_life, input.rate)
    /\ locals' = sf_locals(R(input.purchase_cost), R(input.salvage_value),
                     input.useful_life, input.rate)
    /\ UNCHANGED input

NextDepreciation == StraightLine \/ DecliningBalance \/ SumOfYearsDigits \/ SinkingFund

SpecDepreciation == InitDepreciation /\ [][NextDepreciation]_vars

-----------------------------------------------------------------------------
(* Properties of the depreciation engine.                                  *)

Cost == R(input.purchase_cost)

Salvage == R(input.salvage_value)

Table == result.depreciation_table

PrevBook(table, i) == IF i = 1 THEN Cost ELSE table[i - 1].Book_Value

RMin(a, b) == IF RLt(b, a) THEN b ELSE a

DepFns == {"straight_line_depreciation", "declining_balance_depreciation",
           "sum_of_years_digits_depreciation", "sinking_fund_depreciation"}

(* The rate declining-balance works with: the one given, or 2/life.        *)
DbRate == IF input.rate = None THEN Frac(2, input.useful_life) ELSE input.rate

DbValid ==
    /\ fn = "declining_balance_depreciation"
    /\ input.purchase_cost > input.salvage_value
    /\ input.useful_life >= 1
    /\ RLe(R(0), DbRate)

(* C1: declining balance, cost > salvage >= 0, life >= 1, rate >= 0 (given *)
(* or defaulted to 2/life): every row's Book_Value is <= the previous      *)
(* year's (the purchase cost before year 1) and >= salvage, and the year's *)
(* charge is min(bookValue * rate, bookValue - salvage).                   *)
C1_DecliningBalanceBounded ==
    DbValid =>
        /\ result.outcome = "ok"
        /\ Len(Table) = input.useful_life
        /\ \A i \in 1..Len(Table) :
              /\ RLe(Table[i].Book_Value, PrevBook(Table, i))
              /\ RLe(Salvage, Table[i].Book_Value)
              /\ Table[i].Annual_Depreciation =
                     RMin(RMul(PrevBook(Table, i), DbRate),
                          RSub(PrevBook(Table, i), Salvage))

(* A schedule of several years in which the cap at salvage is what sets a  *)
(* year's charge, after a year in which the rate set it.                   *)
C1_Witness ==
    /\ DbValid
    /\ result.outcome = "ok"
    /\ Len(Table) >= 2
    /\ RLt(Salvage, Table[1].Book_Value)
    /\ \E i \in 2..Len(Table) :
          /\ RLt(RSub(PrevBook(Table, i), Salvage), RMul(PrevBook(Table, i), DbRate))
          /\ Table[i].Book_Value = Salvage

DepValid ==
    /\ fn \in DepFns
    /\ input.purchase_cost > input.salvage_value
    /\ input.useful_life >= 1
    /\ input.rate # None => RLe(R(0), input.rate)

(* C4: sinking fund, cost > salvage, life >= 1, rate >= 0: the balance     *)
(* after the final year equals cost - salvage and the final book value     *)
(* equals salvage.                                                         *)
C4_SinkingFundReachesDepreciableAmount ==
    (DepValid /\ fn = "sinking_fund_depreciation") =>
        /\ Len(locals) = input.useful_life
        /\ Last(locals).Sinking_Fund_Balance = RSub(Cost, Salvage)
        /\ Last(locals).Book_Value = Salvage

(* C5: on valid input each of the four functions completes without raising *)
(* and returns the method name, the total depreciation and a table with    *)
(* one row per year 1..useful_life.                                        *)
C5_EveryMethodReturnsSchedule ==
    DepValid =>
        /\ result.outcome = "ok"
        /\ {"method", "total_depreciation", "depreciation_table"} \subseteq DOMAIN result
        /\ Len(Table) = input.useful_life
        /\ \A i \in 1..Len(Table) : Table[i].Year = i

SlValid ==
    /\ fn = "straight_line_depreciation"
    /\ input.purchase_cost > input.salvage_value
    /\ input.salvage_value > 0
    /\ input.useful_life >= 1

(* C8: straight line, cost > salvage > 0, life >= 1: every charge is       *)
(* (cost - salvage)/life, the final cumulative depreciation is             *)
(* cost - salvage, the final book value is salvage, and book value         *)
(* decreases every year without going below salvage.                       *)
C8_StraightLineSchedule ==
    SlValid =>
        /\ result.outcome = "ok"
        /\ Len(Table) = input.useful_life
        /\ \A i \in 1..Len(Table) :
              /\ Table[i].Annual_Depreciation =
                     RDiv(RSub(Cost, Salvage), R(input.useful_life))
              /\ RLt(Table[i].Book_Value, PrevBook(Table, i))
              /\ RLe(Salvage, Table[i].Book_Value)
        /\ Last(Table).Cumulative_Depreciation = RSub(Cost, Salvage)
        /\ Last(Table).Book_Value = Salvage

(* A straight-line schedule of several years whose charge is not a whole   *)
(* number.                                                                 *)
C8_Witness ==
    /\ SlValid
    /\ result.outcome = "ok"
    /\ Len(Table) >= 3
    /\ Table[1].Annual_Depreciation[2] > 1
    /\ Last(Table).Book_Value = Salvage

SydValid ==
    /\ fn = "sum_of_years_digits_depreciation"
    /\ input.purchase_cost > input.salvage_value
    /\ input.useful_life >= 1

(* C9: sum of years digits, cost > salvage, life >= 1: the charge of year  *)
(* y is (life - y + 1)/(life*(life+1)/2) * (cost - salvage), the charges   *)
(* sum to cost - salvage, and the final book value is salvage.             *)
C9_SumOfYearsDigitsSchedule ==
    SydValid =>
        /\ result.outcome = "ok"
        /\ Len(Table) = input.useful_life
        /\ \A y \in 1..Len(Table) :
              Table[y].Annual_Depreciation =
                  RMul(Frac(2 * (input.useful_life - y + 1),
                            input.useful_life * (input.useful_life + 1)),
                       RSub(Cost, Salvage))
        /\ RSum([y \in 1..Len(Table) |-> Table[y].Annual_Depreciation])
               = RSub(Cost, Salvage)
        /\ Last(Table).Book_Value = Salvage

(* A sum-of-years-digits schedule of several years with unequal charges.   *)
C9_Witness ==
    /\ SydValid
    /\ result.outcome = "ok"
    /\ Len(Table) >= 3
    /\ RLt(Table[3].Annual_Depreciation, Table[1].Annual_Depreciation)
    /\ Last(Table).Book_Value = Salvage

(* C10: each of the four functions yields an error and no schedule when    *)
(* salvage >= cost or life <= 0, and sinking fund also when rate < 0.      *)
C10_InvalidInputsRejected ==
    (/\ fn \in DepFns
     /\ \/ input.salvage_value >= input.purchase_cost
        \/ input.useful_life <= 0
        \/ fn = "sinking_fund_depreciation" /\ RLt(input.rate, R(0)))
        => result.outcome = "raise"

-----------------------------------------------------------------------------
(* src/calculations/breakeven.py                                           *)

MaxFixed == 2

MaxPrice == 6

MaxVolume == 2

be_rejects_only_equal(selling_price_per_unit, variable_cost_per_unit) ==
    selling_price_per_unit = variable_cost_per_unit

(* Line 17: the guard of calculate_breakeven_units.                        *)
be_rejects(selling_price_per_unit, variable_cost_per_unit) ==
    RLe(selling_price_per_unit, variable_cost_per_unit)

calculate_breakeven_units(fixed_costs, selling_price_per_unit, variable_cost_per_unit) ==
    IF be_rejects(selling_price_per_unit, variable_cost_per_unit)
    THEN [outcome |-> "ok",
          error |-> "Selling price must be greater than variable cost per unit"]
    ELSE LET contribution_margin == RSub(selling_price_per_unit, variable_cost_per_unit)
             breakeven_units == RDiv(fixed_costs, contribution_margin)
             breakeven_sales == RMul(breakeven_units, selling_price_per_unit)
         IN  [outcome |-> "ok",
              breakeven_units |-> breakeven_units,
              breakeven_sales |-> breakeven_sales,
              contribution_margin_per_unit |-> contribution_margin,
              contribution_margin_ratio |->
                  RDiv(contribution_margin, selling_price_per_unit),
              fixed_costs |-> fixed_costs,
              variable_cost_per_unit |-> variable_cost_per_unit,
              selling_price_per_unit |-> selling_price_per_unit]

profit_at_volume_without_fixed_costs(fixed_costs, selling_price_per_unit, variable_cost_per_unit, production_volume) ==
    LET total_revenue == RMul(production_volume, selling_price_per_unit)
        total_variable_costs == RMul(production_volume, variable_cost_per_unit)
        total_costs == total_variable_costs
        profit == RSub(total_revenue, total_costs)
        contribution_margin == RSub(selling_price_per_unit, variable_cost_per_unit)
    IN  [outcome |-> "ok",
         production_volume |-> production_volume,
         total_revenue |-> total_revenue,
         total_variable_costs |-> total_variable_costs,
         total_fixed_costs |-> fixed_costs,
         total_costs |-> total_costs,
         profit |-> profit,
         profit_margin |-> IF RLt(R(0), total_revenue)
                           THEN RMul(RDiv(profit, total_revenue), R(100))
                           ELSE R(0),
         contribution_margin_total |-> RMul(contribution_margin, production_volume)]

profit_at_volume(fixed_costs, selling_price_per_unit, variable_cost_per_unit, production_volume) ==
    LET total_revenue == RMul(production_volume, selling_price_per_unit)
        total_variable_costs == RMul(production_volume, variable_cost_per_unit)
        total_costs == RAdd(fixed_costs, total_variable_costs)
        profit == RSub(total_revenue, total_costs)
        contribution_margin == RSub(selling_price_per_unit, variable_cost_per_unit)
    IN  [outcome |-> "ok",
         production_volume |-> production_volume,
         total_revenue |-> total_revenue,
         total_variable_costs |-> total_variable_costs,
         total_fixed_costs |-> fixed_costs,
         total_costs |-> total_costs,
         profit |-> profit,
         profit_margin |-> IF RLt(R(0), total_revenue)
                           THEN RMul(RDiv(profit, total_revenue), R(100))
                           ELSE R(0),
         contribution_margin_total |-> RMul(contribution_margin, production_volume)]

(* Line 90.                                                                *)
change_factor(change_pct) == RAdd(R(1), Frac(change_pct, 100))

(* dict.get('breakeven_units', 0) of lines 98, 109 and 120.                *)
get_breakeven_units(breakeven) ==
    IF "breakeven_units" \in DOMAIN breakeven THEN breakeven.breakeven_units ELSE R(0)

(* Lines 93-100.                                                           *)
sens_fixed_costs_entry(change_pct, fc, sp, vc, vol) ==
    LET new_fixed_costs == RMul(fc, change_factor(change_pct))
    IN  [change_percent |-> change_pct,
         new_breakeven_units |->
             get_breakeven_units(calculate_breakeven_units(new_fixed_costs, sp, vc)),
         new_profit |-> profit_at_volume(new_fixed_costs, sp, vc, vol).profit]

(* Lines 103-111: empty when the perturbed price is skipped.               *)
sens_selling_price_entry(change_pct, fc, sp, vc, vol) ==
    LET new_selling_price == RMul(sp, change_factor(change_pct))
    IN  IF RLt(vc, new_selling_price)
        THEN <<[change_percent |-> change_pct,
                new_breakeven_units |->
                    get_breakeven_units(
                        calculate_breakeven_units(fc, new_selling_price, vc)),
                new_profit |-> profit_at_volume(fc, new_selling_price, vc, vol).profit]>>
        ELSE <<>>

(* Lines 114-122: empty when the perturbed variable cost is skipped.       *)
sens_variable_cost_entry(change_pct, fc, sp, vc, vol) ==
    LET new_variable_cost == RMul(vc, change_factor(change_pct))
    IN  IF RLt(new_variable_cost, sp)
        THEN <<[change_percent |-> change_pct,
                new_breakeven_units |->
                    get_breakeven_units(
                        calculate_breakeven_units(fc, sp, new_variable_cost)),
                new_profit |-> profit_at_volume(fc, sp, new_variable_cost, vol).profit]>>
        ELSE <<>>

sens_volume_entry_compounded(change_pct, fc, sp, vc, vol) ==
    LET new_volume == RMul(vol, change_factor(change_pct))
        new_fixed_costs == RMul(fc, change_factor(change_pct))
    IN  [change_percent |-> change_pct,
         new_volume |-> new_volume,
         new_profit |-> profit_at_volume(new_fixed_costs, sp, vc, new_volume).profit]

(* Lines 125-131.                                                          *)
sens_volume_entry(change_pct, fc, sp, vc, vol) ==
    LET new_volume == RMul(vol, change_factor(change_pct))
    IN  [change_percent |-> change_pct,
         new_volume |-> new_volume,
         new_profit |-> profit_at_volume(fc, sp, vc, new_volume).profit]

(* Lines 89-131: the loop over change_percentages, appending to the four   *)
(* lists of sensitivity_results.                                           *)
RECURSIVE sens_loop(_, _, _, _, _, _)
sens_loop(change_percentages, acc, fc, sp, vc, vol) ==
    IF change_percentages = <<>> THEN acc
    ELSE LET change_pct == Head(change_percentages)
             next_acc ==
                 [fixed_costs_sensitivity |->
                      Append(acc.fixed_costs_sensitivity,
                             sens_fixed_costs_entry(change_pct, fc, sp, vc, vol)),
                  selling_price_sensitivity |->
                      acc.selling_price_sensitivity
                          \o sens_selling_price_entry(change_pct, fc, sp, vc, vol),
                  variable_cost_sensitivity |->
                      acc.variable_cost_sensitivity
                          \o sens_variable_cost_entry(change_pct, fc, sp, vc, vol),
                  volume_sensitivity |->
                      Append(acc.volume_sensitivity,
                             sens_volume_entry(change_pct, fc, sp, vc, vol))]
         IN  sens_loop(Tail(change_percentages), next_acc, fc, sp, vc, vol)

sensitivity_analysis(base_fixed_costs, base_selling_price, base_variable_cost, base_volume, change_percentages) ==
    [outcome |-> "ok",
     base_breakeven |->
         calculate_breakeven_units(base_fixed_costs, base_selling_price,
                                   base_variable_cost),
     base_profit |->
         profit_at_volume(base_fixed_costs, base_selling_price, base_variable_cost,
                          base_volume),
     sensitivity_analysis |->
         sens_loop(change_percentages,
                   [fixed_costs_sensitivity |-> <<>>,
                    selling_price_sensitivity |-> <<>>,
                    variable_cost_sensitivity |-> <<>>,
                    volume_sensitivity |-> <<>>],
                   base_fixed_costs, base_selling_price, base_variable_cost,
                   base_volume)]

-----------------------------------------------------------------------------
(* Calls of the break-even engine.                                         *)

(* Line 66: the default of change_percentages.                             *)
DefaultChangePercentages == <<-20, -10, 0, 10, 20>>

ChangePercentageLists == {DefaultChangePercentages, <<50, -50>>, <<-100, 0, 100>>}

BreakevenInputs ==
    [engine : {"breakeven"},
     fixed_costs : 0..MaxFixed,
     selling_price : 0..MaxPrice,
     variable_cost : 0..MaxPrice,
     volume : 0..MaxVolume,
     change_percentages : ChangePercentageLists]

InitBreakeven ==
    /\ input \in BreakevenInputs
    /\ fn = "none"
    /\ result = [outcome |-> "none"]
    /\ locals = <<>>

(* A function is called once per combination of the arguments it takes:   *)
(* the inputs it does not read are held at one value.                      *)
BreakevenUnits ==
    /\ Ready("breakeven")
    /\ input.volume = 0
    /\ input.change_percentages = DefaultChangePercentages
    /\ fn' = "calculate_breakeven_units"
    /\ result' = calculate_breakeven_units(R(input.fixed_costs),
                     R(input.selling_price), R(input.variable_cost))
    /\ UNCHANGED <<input, locals>>

ProfitAtVolume ==
    /\ Ready("breakeven")
    /\ input.change_percentages = DefaultChangePercentages
    /\ fn' = "profit_at_volume"
    /\ result' = profit_at_volume(R(input.fixed_costs), R(input.selling_price),
                     R(input.variable_cost), R(input.volume))
    /\ UNCHANGED <<input, locals>>

SensitivityAnalysis ==
    /\ Ready("breakeven")
    /\ fn' = "sensitivity_analysis"
    /\ result' = sensitivity_analysis(R(input.fixed_costs), R(input.selling_price),
                     R(input.variable_cost), R(input.volume),
                     input.change_percentages)
    /\ UNCHANGED <<input, locals>>

(* The volumes tried around a break-even volume, as offsets from it.       *)
VolumeOffsets == {R(-1), Frac(-1, 2), R(0), Frac(1, 2), R(1)}

(* profit_at_volume at, below or above the breakeven_units that a          *)
(* calculate_breakeven_units call returned for the same costs and price.   *)
ProfitAroundBreakeven ==
    /\ fn = "calculate_breakeven_units"
    /\ input.engine = "breakeven"
    /\ "breakeven_units" \in DOMAIN result
    /\ \E offset \in VolumeOffsets :
          /\ locals' = [breakeven |-> result, offset |-> offset]
          /\ result' = profit_at_volume(R(input.fixed_costs), R(input.selling_price),
                           R(input.variable_cost),
                           RAdd(result.breakeven_units, offset))
    /\ fn' = "profit_at_volume"
    /\ UNCHANGED input

NextBreakeven ==
    \/ BreakevenUnits
    \/ ProfitAtVolume
    \/ SensitivityAnalysis
    \/ ProfitAroundBreakeven

SpecBreakeven == InitBreakeven /\ [][NextBreakeven]_vars

-----------------------------------------------------------------------------
(* Properties of the break-even engine.                                    *)

Fixed == R(input.fixed_costs)

Price == R(input.selling_price)

VarCost == R(input.variable_cost)

Volume == R(input.volume)

(* The change_percent fields of a result sequence, in order.               *)
Percents(entries) == [i \in 1..Len(entries) |-> entries[i].change_percent]

(* C2: with selling price <= variable cost calculate_breakeven_units       *)
(* produces its error outcome and no breakeven_units / breakeven_sales     *)
(* figure of any value.                                                    *)
C2_BreakevenRejectsNonPositiveMargin ==
    (fn = "calculate_breakeven_units" /\ input.selling_price <= input.variable_cost)
        => /\ "error" \in DOMAIN result
           /\ "breakeven_units" \notin DOMAIN result
           /\ "breakeven_sales" \notin DOMAIN result

(* The call was made with a price strictly below the variable cost, where  *)
(* the unguarded formula would give a negative break-even.                 *)
C2_Witness ==
    /\ fn = "calculate_breakeven_units"
    /\ input.selling_price < input.variable_cost
    /\ input.fixed_costs > 0
    /\ "error" \in DOMAIN result

Sens == result.sensitivity_analysis

(* C6: no entry of the four sequences is computed from a price /           *)
(* variable-cost pair with price <= variable cost, and no placeholder      *)
(* break-even of 0 stands in for a skipped combination.                    *)
C6_NoEntryFromInvalidMargin ==
    fn = "sensitivity_analysis" =>
        /\ \A i \in 1..Len(Sens.fixed_costs_sensitivity) : RLt(VarCost, Price)
        /\ \A i \in 1..Len(Sens.volume_sensitivity) : RLt(VarCost, Price)
        /\ \A i \in 1..Len(Sens.selling_price_sensitivity) :
              RLt(VarCost,
                  RMul(Price,
                       change_factor(Sens.selling_price_sensitivity[i].change_percent)))
        /\ \A i \in 1..Len(Sens.variable_cost_sensitivity) :
              RLt(RMul(VarCost,
                       change_factor(Sens.variable_cost_sensitivity[i].change_percent)),
                  Price)

PriceKept(p) == RLt(VarCost, RMul(Price, change_factor(p)))

VarCostKept(p) == RLt(RMul(VarCost, change_factor(p)), Price)

(* C7: one factor at a time.  Every recorded new_profit is                 *)
(* profit_at_volume with exactly the sequence's own parameter multiplied   *)
(* by 1 + p/100 and the other three at their base values; the fixed-cost   *)
(* and volume sequences have one entry per percentage, the price and       *)
(* variable-cost sequences one per percentage that is not skipped, all in  *)
(* the order of the percentage list.                                       *)
C7_OneFactorAtATime ==
    fn = "sensitivity_analysis" =>
        /\ Percents(Sens.fixed_costs_sensitivity) = input.change_percentages
        /\ Percents(Sens.volume_sensitivity) = input.change_percentages
        /\ Percents(Sens.selling_price_sensitivity)
               = SelectSeq(input.change_percentages, PriceKept)
        /\ Percents(Sens.variable_cost_sensitivity)
               = SelectSeq(input.change_percentages, VarCostKept)
        /\ \A i \in 1..Len(Sens.fixed_costs_sensitivity) :
              LET e == Sens.fixed_costs_sensitivity[i]
              IN  e.new_profit =
                      profit_at_volume(RMul(Fixed, change_factor(e.change_percent)),
                                       Price, VarCost, Volume).profit
        /\ \A i \in 1..Len(Sens.selling_price_sensitivity) :
              LET e == Sens.selling_price_sensitivity[i]
              IN  e.new_profit =
                      profit_at_volume(Fixed,
                                       RMul(Price, change_factor(e.change_percent)),
                                       VarCost, Volume).profit
        /\ \A i \in 1..Len(Sens.variable_cost_sensitivity) :
              LET e == Sens.variable_cost_sensitivity[i]
              IN  e.new_profit =
                      profit_at_volume(Fixed, Price,
                                       RMul(VarCost, change_factor(e.change_percent)),
                                       Volume).profit
        /\ \A i \in 1..Len(Sens.volume_sensitivity) :
              LET e == Sens.volume_sensitivity[i]
              IN  e.new_profit =
                      profit_at_volume(Fixed, Price, VarCost,
                                       RMul(Volume, change_factor(e.change_percent))).profit

(* A sweep over the default list in which every parameter matters (all     *)
(* base values positive), one price perturbation is skipped and the other  *)
(* sequences are complete.                                                 *)
C7_Witness ==
    /\ fn = "sensitivity_analysis"
    /\ input.change_percentages = DefaultChangePercentages
    /\ input.fixed_costs > 0 /\ input.volume > 0 /\ input.variable_cost > 0
    /\ Len(Sens.fixed_costs_sensitivity) = 5
    /\ Len(Sens.selling_price_sensitivity) = 4
    /\ Len(Sens.variable_cost_sensitivity) = 5
    /\ Len(Sens.volume_sensitivity) = 5
    /\ Sens.volume_sensitivity[1].new_profit # Sens.volume_sensitivity[5].new_profit

(* profit_at_volume was called around a returned break-even volume.       *)
AroundBreakeven ==
    /\ input.engine = "breakeven"
    /\ fn = "profit_at_volume"
    /\ locals # <<>>

(* C29: for fixed_costs >= 0 and price > variable cost, profit_at_volume   *)
(* at the breakeven_units of calculate_breakeven_units gives profit 0 and  *)
(* total_revenue = breakeven_sales; the profit is negative at a smaller    *)
(* volume and positive at a larger one.                                    *)
C29_BreakevenConsistency ==
    (AroundBreakeven /\ input.selling_price > input.variable_cost)
        => /\ result.production_volume
                 = RAdd(locals.breakeven.breakeven_units, locals.offset)
           /\ RIsZero(locals.offset)
                 => /\ RIsZero(result.profit)
                    /\ result.total_revenue = locals.breakeven.breakeven_sales
           /\ RLt(locals.offset, R(0)) => RLt(result.profit, R(0))
           /\ RLt(R(0), locals.offset) => RLt(R(0), result.profit)

(* A fractional break-even volume with positive fixed and variable costs.  *)
C29_Witness ==
    /\ AroundBreakeven
    /\ input.fixed_costs > 0
    /\ input.variable_cost > 0
    /\ RIsZero(locals.offset)
    /\ locals.breakeven.breakeven_units[2] > 1
    /\ RIsZero(result.profit)
    /\ result.total_revenue = locals.breakeven.breakeven_sales

-----------------------------------------------------------------------------
(* src/calculations/profitability.py                                       *)

MaxCashFlow == 4

MaxInvestment == 3

MaxProjectLife == 2

(* What numpy's float64 arithmetic gives for a division by zero: inf or    *)
(* nan, a value every comparison with a finite bound rejects.              *)
NonFinite == <<0, 0>>

(* Lines 111-115: the closure npv_equation of calculate_irr_uniform.       *)
npv_equation(rate, annual_cash_flow, project_life, initial_investment) ==
    IF RIsZero(rate)
    THEN RSub(RMul(annual_cash_flow, R(project_life)), initial_investment)
    ELSE IF RIsZero(RAdd(R(1), rate)) /\ project_life # 0 THEN NonFinite
    ELSE LET growth == RPow(RAdd(R(1), rate), project_life)
             pw_factor == RDiv(RSub(growth, R(1)), RMul(rate, growth))
         IN  RSub(RMul(annual_cash_flow, pw_factor), initial_investment)

(* The 1e-6 of line 121, as the denominator of the tolerance.              *)
ResidualToleranceInverse == 1000000

(* abs(x) < 1e-6, false for inf and nan.                                   *)
within_tolerance(x) ==
    /\ x # NonFinite
    /\ Abs(x[1]) <= (x[2] - 1) \div ResidualToleranceInverse

(* The -0.99 of line 121.                                                  *)
IrrLowerBound == Frac(-99, 100)

irr_verified_bound_only(irr, annual_cash_flow, project_life, initial_investment) ==
    RLt(IrrLowerBound, irr)

(* Line 121: the verification of the solver's candidate.                   *)
irr_verified(irr, annual_cash_flow, project_life, initial_investment) ==
    /\ within_tolerance(
           npv_equation(irr, annual_cash_flow, project_life, initial_investment))
    /\ RLt(IrrLowerBound, irr)

(* Lines 117-126.  fsolve is scipy's: solver is what it did, either raise  *)
(* or hand back some number x as element 0 of its answer.                  *)
calculate_irr_uniform(annual_cash_flow, project_life, initial_investment, solver) ==
    IF solver.raises THEN [outcome |-> "ok", value |-> None]
    ELSE IF irr_verified(solver.x, annual_cash_flow, project_life, initial_investment)
         THEN [outcome |-> "ok", value |-> solver.x]
         ELSE [outcome |-> "ok", value |-> None]

(* Lines 7-20.                                                             *)
calculate_roi(annual_profit, total_investment) ==
    IF RIsZero(total_investment) THEN R(0)
    ELSE RMul(RDiv(annual_profit, total_investment), R(100))

(* float('inf').                                                           *)
Infinity == <<1, 0>>

calculate_payback_period_zero_sentinel(initial_investment, annual_cash_flow) ==
    IF RIsZero(annual_cash_flow) THEN [outcome |-> "ok", value |-> R(0)]
    ELSE [outcome |-> "ok", value |-> RDiv(initial_investment, annual_cash_flow)]

(* Lines 22-35.                                                            *)
calculate_payback_period(initial_investment, annual_cash_flow) ==
    IF RIsZero(annual_cash_flow) THEN [outcome |-> "ok", value |-> Infinity]
    ELSE [outcome |-> "ok", value |-> RDiv(initial_investment, annual_cash_flow)]

npv_present_value_start_of_year(cf, discount_rate, i) ==
    RDiv(R(cf), RPow(RAdd(R(1), discount_rate), i))

(* Line 55, for the cash flow cf at the 0-based index i.                   *)
npv_present_value(cf, discount_rate, i) ==
    RDiv(R(cf), RPow(RAdd(R(1), discount_rate), i + 1))

(* Lines 48-67, for a list of cash flows (a single number is first made a  *)
(* one-item list by line 50) and discount_rate # -1.                       *)
calculate_npv(cash_flows, discount_rate, initial_investment) ==
    LET pv_cash_flows ==
            [i \in 1..Len(cash_flows) |->
                npv_present_value(cash_flows[i], discount_rate, i - 1)]
        total_pv == RSum(pv_cash_flows)
    IN  [outcome |-> "ok",
         npv |-> RSub(total_pv, initial_investment),
         total_pv_inflows |-> total_pv,
         initial_investment |-> initial_investment,
         pv_cash_flows |-> pv_cash_flows,
         discount_rate |-> discount_rate]

(* Lines 81-98, for project_life >= 1 and discount_rate # -1.              *)
calculate_npv_uniform(annual_cash_flow, discount_rate, project_life, initial_investment) ==
    LET growth == RPow(RAdd(R(1), discount_rate), project_life)
        pw_factor == IF RIsZero(discount_rate) THEN R(project_life)
                     ELSE RDiv(RSub(growth, R(1)), RMul(discount_rate, growth))
        total_pv == IF RIsZero(discount_rate)
                    THEN RMul(annual_cash_flow, R(project_life))
                    ELSE RMul(annual_cash_flow, pw_factor)
    IN  [outcome |-> "ok",
         npv |-> RSub(total_pv, initial_investment),
         total_pv_inflows |-> total_pv,
         initial_investment |-> initial_investment,
         annual_cash_flow |-> annual_cash_flow,
         project_life |-> project_life,
         discount_rate |-> discount_rate,
         pw_factor |-> pw_factor]

(* Python's truth value of irr in "irr and ..." and "... if irr else None" *)
(* (lines 148 and 156): None and 0.0 are both false.                       *)
Truthy(x) == x # None /\ ~RIsZero(x)

(* payback <= project_life / 2 of line 149; inf is above every bound.      *)
payback_within(payback, project_life) ==
    payback # Infinity /\ RLe(payback, Frac(project_life, 2))

(* Lines 141-162.                                                          *)
profitability_summary(initial_investment, annual_cash_flow, project_life, discount_rate, solver) ==
    LET roi == calculate_roi(annual_cash_flow, initial_investment)
        payback == calculate_payback_period(initial_investment, annual_cash_flow).value
        npv_result == calculate_npv_uniform(annual_cash_flow, discount_rate,
                                            project_life, initial_investment)
        irr == calculate_irr_uniform(annual_cash_flow, project_life,
                                     initial_investment, solver).value
    IN  [outcome |-> "ok",
         roi_percent |-> roi,
         payback_period |-> payback,
         npv |-> npv_result.npv,
         irr_decimal |-> irr,
         irr_percent |-> IF Truthy(irr) THEN RMul(irr, R(100)) ELSE None,
         npv_decision |-> IF RLt(R(0), npv_result.npv) THEN "Accept" ELSE "Reject",
         irr_decision |-> IF Truthy(irr) /\ RLt(discount_rate, irr)
                          THEN "Accept" ELSE "Reject",
         payback_decision |-> IF payback_within(payback, project_life)
                              THEN "Good" ELSE "Poor",
         total_cash_inflow |-> RMul(annual_cash_flow, R(project_life)),
         net_profit |-> RSub(RMul(annual_cash_flow, R(project_life)),
                             initial_investment)]

(* numpy.cumsum of lines 182-183.                                          *)
RECURSIVE cumsum(_)
cumsum(values) ==
    IF values = <<>> THEN <<>>
    ELSE LET front == cumsum(SubSeq(values, 1, Len(values) - 1))
         IN  Append(front, IF front = <<>> THEN Last(values)
                           ELSE RAdd(Last(front), Last(values)))

table_pv_factor_start_of_year(discount_rate, year) ==
    RInv(RPow(RAdd(R(1), discount_rate), year - 1))

(* Line 179, for a year >= 1.                                              *)
table_pv_factor(discount_rate, year) ==
    RInv(RPow(RAdd(R(1), discount_rate), year))

(* Lines 176-194, for project_life >= 0; the DataFrame is the record of    *)
(* its columns.                                                            *)
create_cash_flow_table(initial_investment, annual_cash_flow, project_life, discount_rate) ==
    LET years == [i \in 1..(project_life + 1) |-> i - 1]
        cash_flows == [i \in 1..(project_life + 1) |->
                          IF i = 1 THEN RNeg(initial_investment)
                          ELSE annual_cash_flow]
        pv_factors == [i \in 1..(project_life + 1) |->
                          IF i = 1 THEN R(1)
                          ELSE table_pv_factor(discount_rate, i - 1)]
        pv_cash_flows == [i \in 1..(project_life + 1) |->
                             RMul(cash_flows[i], pv_factors[i])]
    IN  [outcome |-> "ok",
         Year |-> years,
         Cash_Flow |-> cash_flows,
         PV_Factor |-> pv_factors,
         Present_Value |-> pv_cash_flows,
         Cumulative_PV |-> cumsum(pv_cash_flows),
         Cumulative_Cash_Flow |-> cumsum(cash_flows)]

-----------------------------------------------------------------------------
(* Calls of the profitability engine.                                      *)

DiscountRates == {Frac(-1, 2), R(0), Frac(1, 2)}

(* Line 119: every way the call of fsolve can end.                         *)
FsolveCandidates ==
    {R(-2), R(-1), Frac(-1, 2), R(0), Frac(1, 2), R(1)}

FsolveOutcomes ==
    [raises : {FALSE}, x : FsolveCandidates] \cup [raises : {TRUE}, x : {R(0)}]

Investments ==
    {R(i) : i \in 0..MaxInvestment}
        \cup {Frac(ResidualToleranceInverse + 1, ResidualToleranceInverse),
              Frac(2 * ResidualToleranceInverse + 1, 2 * ResidualToleranceInverse)}

ProfitabilityInputs ==
    [engine : {"profitability"},
     initial_investment : Investments,
     annual_cash_flow : (-1)..MaxCashFlow,
     project_life : 1..MaxProjectLife,
     discount_rate : DiscountRates]

(* The lists of at most MaxProjectLife yearly cash flows.                  *)
CashFlowLists ==
    UNION {[1..n -> (-1)..MaxCashFlow] : n \in 0..MaxProjectLife}

NpvInputs ==
    [engine : {"npv"},
     cash_flows : CashFlowLists,
     discount_rate : DiscountRates,
     initial_investment : {R(i) : i \in 0..MaxInvestment}]

InitProfitability ==
    /\ input \in ProfitabilityInputs \cup NpvInputs
    /\ fn = "none"
    /\ result = [outcome |-> "none"]
    /\ locals = <<>>

(* A function without a discount_rate parameter is called once per        *)
(* combination of its own arguments, from the inputs whose rate is 0.      *)
IrrUniform ==
    /\ Ready("profitability")
    /\ input.discount_rate = R(0)
    /\ \E solver \in FsolveOutcomes :
          /\ locals' = [fsolve |-> solver]
          /\ result' = calculate_irr_uniform(R(input.annual_cash_flow),
                           input.project_life, input.initial_investment, solver)
    /\ fn' = "calculate_irr_uniform"
    /\ UNCHANGED input

Roi ==
    /\ Ready("profitability")
    /\ input.discount_rate = R(0)
    /\ input.project_life = 1
    /\ fn' = "calculate_roi"
    /\ result' = [outcome |-> "ok",
                  value |-> calculate_roi(R(input.annual_cash_flow),
                                          input.initial_investment)]
    /\ UNCHANGED <<input, locals>>

PaybackPeriod ==
    /\ Ready("profitability")
    /\ input.discount_rate = R(0)
    /\ input.project_life = 1
    /\ fn' = "calculate_payback_period"
    /\ result' = calculate_payback_period(input.initial_investment,
                                          R(input.annual_cash_flow))
    /\ UNCHANGED <<input, locals>>

NpvUniform ==
    /\ Ready("profitability")
    /\ fn' = "calculate_npv_uniform"
    /\ result' = calculate_npv_uniform(R(input.annual_cash_flow), input.discount_rate,
                                       input.project_life, input.initial_investment)
    /\ UNCHANGED <<input, locals>>

ProfitabilitySummary ==
    /\ Ready("profitability")
    /\ \E solver \in FsolveOutcomes :
          /\ locals' = [fsolve |-> solver]
          /\ result' = profitability_summary(input.initial_investment,
                           R(input.annual_cash_flow), input.project_life,
                           input.discount_rate, solver)
    /\ fn' = "profitability_summary"
    /\ UNCHANGED input

Npv ==
    /\ Ready("npv")
    /\ fn' = "calculate_npv"
    /\ result' = calculate_npv(input.cash_flows, input.discount_rate,
                               input.initial_investment)
    /\ UNCHANGED <<input, locals>>

CashFlowTable ==
    /\ Ready("profitability")
    /\ fn' = "create_cash_flow_table"
    /\ result' = create_cash_flow_table(input.initial_investment,
                     R(input.annual_cash_flow), input.project_life,
                     input.discount_rate)
    /\ UNCHANGED <<input, locals>>

NextProfitability ==
    \/ CashFlowTable
    \/ IrrUniform
    \/ Roi
    \/ PaybackPeriod
    \/ NpvUniform
    \/ ProfitabilitySummary
    \/ Npv

SpecProfitability == InitProfitability /\ [][NextProfitability]_vars

-----------------------------------------------------------------------------
(* Properties of the profitability engine.                                 *)

(* Present value of the uniform cash flow discounted year by year, minus   *)
(* the investment: annual_cash_flow * PWF(r, life) - initial_investment.   *)
UniformNpvAt(r) ==
    RSub(RSum([k \in 1..input.project_life |->
                  RDiv(R(input.annual_cash_flow), RPow(RAdd(R(1), r), k))]),
         input.initial_investment)

IsRootWithinTolerance(r) ==
    /\ RLt(IrrLowerBound, r)
    /\ LET npv == UniformNpvAt(r)
       IN  \E q \in 0..(npv[2] \div ResidualToleranceInverse) :
              /\ q * ResidualToleranceInverse < npv[2]
              /\ Abs(npv[1]) <= q

(* C3: calculate_irr_uniform returns None or a rate r > -0.99 at which     *)
(* |annual_cash_flow * PWF(r, life) - initial_investment| < 1e-6; the rate *)
(* returned is the solver's candidate itself, and a solver failure or a    *)
(* candidate that is no such root gives None, not some other number.       *)
C3_IrrIsVerifiedRootOrNone ==
    fn = "calculate_irr_uniform" =>
        /\ result.value # None =>
              /\ ~locals.fsolve.raises
              /\ result.value = locals.fsolve.x
              /\ IsRootWithinTolerance(result.value)
        /\ (locals.fsolve.raises \/ ~IsRootWithinTolerance(locals.fsolve.x))
              => result.value = None

(* A rate that passed the verification with a residual that is not zero.   *)
C3_Witness ==
    /\ fn = "calculate_irr_uniform"
    /\ result.value # None
    /\ ~RIsZero(UniformNpvAt(result.value))

(* What calculate_irr_uniform returned inside profitability_summary.      *)
IrrFound ==
    calculate_irr_uniform(R(input.annual_cash_flow), input.project_life,
                          input.initial_investment, locals.fsolve).value

(* C11: profitability_summary reports irr_percent = None only when         *)
(* calculate_irr_uniform returned None; an IRR found to be exactly 0 is    *)
(* reported as 0 percent.                                                  *)
C11_UndefinedIrrDistinctFromZero ==
    fn = "profitability_summary" =>
        /\ result.irr_percent = None <=> IrrFound = None
        /\ IrrFound = R(0) => result.irr_percent = R(0)

(* C12: three independent decisions: npv_decision is Accept iff npv > 0,   *)
(* irr_decision is Accept iff the IRR is defined and strictly above the    *)
(* discount rate, payback_decision is Good iff payback <= project_life/2.  *)
C12_IndependentDecisions ==
    fn = "profitability_summary" =>
        /\ result.npv_decision = "Accept" <=> RLt(R(0), result.npv)
        /\ result.irr_decision = "Accept"
               <=> (IrrFound # None /\ RLt(input.discount_rate, IrrFound))
        /\ result.payback_decision = "Good"
               <=> (/\ result.payback_period # Infinity
                    /\ RLe(RMul(R(2), result.payback_period), R(input.project_life)))

(* C13: calculate_payback_period returns initial_investment /              *)
(* annual_cash_flow when the cash flow is nonzero and an explicit infinite *)
(* result, not an error, when it is 0, whatever the investment.            *)
C13_PaybackInfiniteNotError ==
    fn = "calculate_payback_period" =>
        /\ result.outcome = "ok"
        /\ input.annual_cash_flow = 0 => result.value = Infinity
        /\ input.annual_cash_flow # 0 =>
               /\ result.value # Infinity
               /\ RMul(result.value, R(input.annual_cash_flow))
                      = input.initial_investment

(* The payback period of a project without cash flow and without           *)
(* investment: 0/0 in the unguarded formula.                               *)
C13_Witness ==
    /\ fn = "calculate_payback_period"
    /\ input.annual_cash_flow = 0
    /\ RIsZero(input.initial_investment)
    /\ result.value = Infinity

(* C28: profitability_summary reports payback_decision "Poor" whenever     *)
(* initial_investment > 0 and annual_cash_flow <= 0, the project never     *)
(* recovering its investment.                                              *)
C28_NoGoodPaybackWithoutRecovery ==
    (/\ fn = "profitability_summary"
     /\ RLt(R(0), input.initial_investment)
     /\ input.annual_cash_flow <= 0)
        => result.payback_decision = "Poor"

(* calculate_npv_uniform and calculate_npv (of the constant sequence) on   *)
(* the arguments of the create_cash_flow_table call.                       *)
UniformNpvOfInput ==
    calculate_npv_uniform(R(input.annual_cash_flow), input.discount_rate,
                          input.project_life, input.initial_investment).npv

ConstantSequenceNpvOfInput ==
    calculate_npv([i \in 1..input.project_life |-> input.annual_cash_flow],
                  input.discount_rate, input.initial_investment).npv

(* C30: for project_life >= 1 and rate >= 0, create_cash_flow_table has    *)
(* the rows of years 0..project_life, the year-0 row with cash flow        *)
(* -initial_investment at discount factor 1, and its last Cumulative_PV    *)
(* equals the npv of calculate_npv_uniform, which equals the npv of        *)
(* calculate_npv for the constant sequence of that length.                 *)
C30_CashFlowTableAgreesWithNpv ==
    (/\ fn = "create_cash_flow_table"
     /\ input.project_life >= 1
     /\ RLe(R(0), input.discount_rate))
        => /\ result.outcome = "ok"
           /\ result.Year = [i \in 1..(input.project_life + 1) |-> i - 1]
           /\ result.Cash_Flow[1] = RNeg(input.initial_investment)
           /\ result.PV_Factor[1] = R(1)
           /\ Last(result.Cumulative_PV) = UniformNpvOfInput
           /\ UniformNpvOfInput = ConstantSequenceNpvOfInput

(* Several years of positive cash flow discounted at a positive rate.      *)
C30_Witness ==
    /\ fn = "create_cash_flow_table"
    /\ input.project_life >= 2
    /\ RLt(R(0), input.discount_rate)
    /\ input.annual_cash_flow > 0
    /\ RLt(R(0), input.initial_investment)
    /\ RLt(Last(result.PV_Factor), R(1))
    /\ Last(result.Cumulative_PV) = UniformNpvOfInput

(* C21: calculate_npv discounts cash flow i (0-based) by (1+rate)^(i+1):   *)
(* pv_cash_flows has the length and order of the input, total_pv_inflows   *)
(* is its sum and npv = total_pv_inflows - initial_investment.             *)
C21_NpvDiscountsEndOfYear ==
    fn = "calculate_npv" =>
        /\ result.outcome = "ok"
        /\ Len(result.pv_cash_flows) = Len(input.cash_flows)
        /\ \A i \in 1..Len(input.cash_flows) :
               RMul(result.pv_cash_flows[i],
                    RPow(RAdd(R(1), input.discount_rate), i))
                  = R(input.cash_flows[i])
        /\ result.total_pv_inflows = RSum(result.pv_cash_flows)
        /\ result.npv = RSub(result.total_pv_inflows, input.initial_investment)

(* Two different cash flows discounted at a positive rate.                 *)
C21_Witness ==
    /\ fn = "calculate_npv"
    /\ Len(input.cash_flows) >= 2
    /\ input.cash_flows[1] > input.cash_flows[2]
    /\ input.cash_flows[2] > 0
    /\ RLt(R(0), input.discount_rate)
    /\ RLt(result.pv_cash_flows[2], result.pv_cash_flows[1])
    /\ result.npv = RSub(RSum(result.pv_cash_flows), input.initial_investment)

-----------------------------------------------------------------------------
(* Time value of money: src/calculations/interest.py.  None of its         *)
(* functions validates an argument.                                        *)

MaxPrincipal == 4
MaxPeriods == 3

(* Lines 18-26.                                                            *)
simple_interest(principal, interest_rate, time_periods) ==
    LET simple_int == RMul(RMul(principal, interest_rate), R(time_periods))
    IN  [outcome |-> "ok",
         simple_interest |-> simple_int,
         total_amount |-> RAdd(principal, simple_int),
         principal |-> principal,
         rate |-> interest_rate,
         periods |-> time_periods]

(* Lines 40-48.                                                            *)
compound_interest(principal, interest_rate, time_periods) ==
    LET future_value == RMul(principal, RPow(RAdd(R(1), interest_rate), time_periods))
    IN  [outcome |-> "ok",
         future_value |-> future_value,
         compound_interest |-> RSub(future_value, principal),
         principal |-> principal,
         rate |-> interest_rate,
         periods |-> time_periods]

present_worth_one_period_more(future_value, interest_rate, time_periods) ==
    RDiv(future_value, RPow(RAdd(R(1), interest_rate), time_periods + 1))

(* Lines 61-62.                                                            *)
present_worth(future_value, interest_rate, time_periods) ==
    RDiv(future_value, RPow(RAdd(R(1), interest_rate), time_periods))

uniform_series_present_worth_one_payment(annual_payment, interest_rate, time_periods) ==
    IF RIsZero(interest_rate) THEN annual_payment
    ELSE LET growth == RPow(RAdd(R(1), interest_rate), time_periods)
             factor == RDiv(RSub(growth, R(1)), RMul(interest_rate, growth))
         IN  RMul(annual_payment, factor)

(* Lines 75-80.                                                            *)
uniform_series_present_worth(annual_payment, interest_rate, time_periods) ==
    IF RIsZero(interest_rate) THEN RMul(annual_payment, R(time_periods))
    ELSE LET growth == RPow(RAdd(R(1), interest_rate), time_periods)
             factor == RDiv(RSub(growth, R(1)), RMul(interest_rate, growth))
         IN  RMul(annual_payment, factor)

(* Lines 93-98.                                                            *)
uniform_series_future_worth(annual_payment, interest_rate, time_periods) ==
    IF RIsZero(interest_rate) THEN RMul(annual_payment, R(time_periods))
    ELSE LET growth == RPow(RAdd(R(1), interest_rate), time_periods)
             factor == RDiv(RSub(growth, R(1)), interest_rate)
         IN  RMul(annual_payment, factor)

-----------------------------------------------------------------------------
(* Calls of the interest functions.  The amount of a call (principal,      *)
(* future value or annual payment) is input.principal.                     *)

InterestRates == {R(0), Frac(1, 10), Frac(1, 2), R(1)}

InterestInputs ==
    [engine : {"interest"},
     principal : (-1)..MaxPrincipal,
     interest_rate : InterestRates,
     time_periods : (-1)..MaxPeriods]

InitInterest ==
    /\ input \in InterestInputs
    /\ fn = "none"
    /\ result = [outcome |-> "none"]
    /\ locals = <<>>

SimpleInterest ==
    /\ Ready("interest")
    /\ fn' = "simple_interest"
    /\ result' = simple_interest(R(input.principal), input.interest_rate,
                                 input.time_periods)
    /\ UNCHANGED <<input, locals>>

CompoundInterest ==
    /\ Ready("interest")
    /\ fn' = "compound_interest"
    /\ result' = compound_interest(R(input.principal), input.interest_rate,
                                   input.time_periods)
    /\ UNCHANGED <<input, locals>>

PresentWorth ==
    /\ Ready("interest")
    /\ fn' = "present_worth"
    /\ result' = [outcome |-> "ok",
                  value |-> present_worth(R(input.principal), input.interest_rate,
                                          input.time_periods)]
    /\ UNCHANGED <<input, locals>>

(* present_worth applied to the future value a compound_interest call      *)
(* returned, with the same rate and periods.                               *)
PresentWorthOfFutureValue ==
    /\ fn = "compound_interest"
    /\ input.engine = "interest"
    /\ fn' = "present_worth"
    /\ locals' = [future_value |-> result.future_value]
    /\ result' = [outcome |-> "ok",
                  value |-> present_worth(result.future_value, result.rate,
                                          result.periods)]
    /\ UNCHANGED input

UniformSeriesPresentWorth ==
    /\ Ready("interest")
    /\ fn' = "uniform_series_present_worth"
    /\ result' = [outcome |-> "ok",
                  value |-> uniform_series_present_worth(R(input.principal),
                               input.interest_rate, input.time_periods)]
    /\ UNCHANGED <<input, locals>>

UniformSeriesFutureWorth ==
    /\ Ready("interest")
    /\ fn' = "uniform_series_future_worth"
    /\ result' = [outcome |-> "ok",
                  value |-> uniform_series_future_worth(R(input.principal),
                               input.interest_rate, input.time_periods)]
    /\ UNCHANGED <<input, locals>>

NextInterest ==
    \/ SimpleInterest
    \/ CompoundInterest
    \/ PresentWorth
    \/ PresentWorthOfFutureValue
    \/ UniformSeriesPresentWorth
    \/ UniformSeriesFutureWorth

SpecInterest == InitInterest /\ [][NextInterest]_vars

-----------------------------------------------------------------------------
(* Properties of the interest functions.                                   *)

InterestFns ==
    {"simple_interest", "compound_interest", "present_worth",
     "uniform_series_present_worth", "uniform_series_future_worth"}

(* The state after present_worth was applied to a compound_interest result *)
RoundTripDone ==
    /\ input.engine = "interest"
    /\ fn = "present_worth"
    /\ locals # <<>>

(* C17: for P > 0, r >= 0 and n >= 1, present_worth of the future value    *)
(* returned by compound_interest(P, r, n), at the same r and n, is P.      *)
C17_CompoundPresentWorthRoundTrip ==
    (/\ RoundTripDone
     /\ input.principal > 0
     /\ RLe(R(0), input.interest_rate)
     /\ input.time_periods >= 1)
        => result.value = R(input.principal)

(* A round trip through a future value that is not the principal.          *)
C17_Witness ==
    /\ RoundTripDone
    /\ input.principal > 0
    /\ RLt(R(0), input.interest_rate)
    /\ input.time_periods >= 2
    /\ locals.future_value # R(input.principal)
    /\ result.value = R(input.principal)

(* C19: every time-value primitive ends in an error, with no computed      *)
(* value, when principal < 0 or periods <= 0.                              *)
C19_PrimitivesRejectInvalidArguments ==
    (/\ input.engine = "interest"
     /\ fn \in InterestFns
     /\ (input.principal < 0 \/ input.time_periods <= 0))
        => result.outcome = "raise"

-----------------------------------------------------------------------------
(* Equipment replacement: src/calculations/replacement.py.                 *)

MaxYears == 3
MaxAnnualCost == 2
MaxEquipmentCost == 2

(* Lines 135-137, for interest_rate > -1.                                  *)
present_worth_annuity_factor(interest_rate, periods) ==
    IF RIsZero(interest_rate) THEN R(periods)
    ELSE LET growth == RPow(RAdd(R(1), interest_rate), periods)
         IN  RDiv(RSub(growth, R(1)), RMul(interest_rate, growth))

replacement_recommendation_nonstrict(savings) ==
    IF RLe(R(0), savings) THEN "Replace" ELSE "Keep Old"

(* Line 110.                                                               *)
replacement_recommendation(savings) ==
    IF RLt(R(0), savings) THEN "Replace" ELSE "Keep Old"

(* Lines 90-123.  old_equipment_cost is a parameter the body never reads.  *)
(* analysis_period is <<>> when omitted and <<p>> when given.  A zero      *)
(* annuity factor (rate 0 with period 0) divides by zero at line 104.      *)
replacement_analysis(old_salvage_value, old_annual_cost, new_equipment_cost, new_salvage_value, new_annual_cost, new_equipment_life, interest_rate, analysis_period) ==
    LET period == IF analysis_period = None THEN new_equipment_life
                  ELSE analysis_period[1]
        factor == present_worth_annuity_factor(interest_rate, period)
        pw_old_total == RMul(old_annual_cost, factor)
        net_investment == RSub(new_equipment_cost, old_salvage_value)
        pw_new_annual_costs == RMul(new_annual_cost, factor)
        pw_new_salvage == RDiv(new_salvage_value,
                               RPow(RAdd(R(1), interest_rate), period))
        pw_new_total == RSub(RAdd(net_investment, pw_new_annual_costs),
                             pw_new_salvage)
        savings == RSub(pw_old_total, pw_new_total)
    IN  IF RIsZero(factor) THEN Raise("ZeroDivisionError")
        ELSE [outcome |-> "ok",
              present_worth_old |-> pw_old_total,
              present_worth_new |-> pw_new_total,
              net_savings |-> savings,
              equivalent_annual_cost_old |-> RDiv(pw_old_total, factor),
              equivalent_annual_cost_new |-> RDiv(pw_new_total, factor),
              annual_savings |-> RSub(RDiv(pw_old_total, factor),
                                      RDiv(pw_new_total, factor)),
              net_investment |-> net_investment,
              recommendation |-> replacement_recommendation(savings),
              analysis_period |-> period,
              interest_rate |-> interest_rate]

(* str.lower() of lines 32-44, on the method names the calls use.          *)
lower(depreciation_method) ==
    CASE depreciation_method = "Straight Line" -> "straight line"
      [] depreciation_method = "Declining Balance" -> "declining balance"
      [] depreciation_method = "Sum of Years Digits" -> "sum of years digits"
      [] depreciation_method = "Sinking Fund" -> "sinking fund"
      [] OTHER -> depreciation_method

(* DataFrame.iloc[index] on a table that has the row: 0-based, a negative  *)
(* index counting back from the end.                                       *)
iloc(table, index) ==
    IF index < 0 THEN table[Len(table) + index + 1] ELSE table[index + 1]

(* Lines 21-69.  An exception of the depreciation function passes through. *)
calculate_salvage_value(purchase_cost, depreciation_method, useful_life, current_age, salvage_rate, interest_rate) ==
    LET salvage == RMul(purchase_cost, salvage_rate)
        method == lower(depreciation_method)
        dep_result ==
            CASE method = "straight line" ->
                   straight_line_depreciation(purchase_cost, salvage, useful_life)
              [] method = "declining balance" ->
                   declining_balance_depreciation(purchase_cost, salvage,
                                                  useful_life, None)
              [] method = "sum of years digits" ->
                   sum_of_years_digits_depreciation(purchase_cost, salvage,
                                                    useful_life)
              [] method = "sinking fund" ->
                   sinking_fund_depreciation(purchase_cost, salvage, useful_life,
                                             interest_rate)
              [] OTHER ->
                   straight_line_depreciation(purchase_cost, salvage, useful_life)
        dep_table == dep_result.depreciation_table
        current_book_value ==
            IF current_age <= Len(dep_table)
            THEN iloc(dep_table, current_age - 1).Book_Value
            ELSE salvage
    IN  IF current_age >= useful_life
        THEN [outcome |-> "ok",
              current_salvage_value |-> salvage,
              book_value |-> salvage,
              method |-> depreciation_method,
              status |-> "Fully Depreciated"]
        ELSE IF dep_result.outcome = "raise" THEN dep_result
        ELSE [outcome |-> "ok",
              current_salvage_value |-> current_book_value,
              book_value |-> current_book_value,
              original_cost |-> purchase_cost,
              current_age |-> current_age,
              useful_life |-> useful_life,
              depreciation_method |-> depreciation_method,
              accumulated_depreciation |-> RSub(purchase_cost, current_book_value)]

(* sum(costs[i] / (1 + rate) ** (offset + i + 1) for i in range(len))      *)
(* of lines 156, 215 and 225, costs indexed from 1 here.                   *)
discounted_sum(costs, interest_rate, offset) ==
    RSum([i \in 1..Len(costs) |->
             RDiv(R(costs[i]), RPow(RAdd(R(1), interest_rate), offset + i))])

(* Lines 156-172: the entry of candidate life n.                           *)
ela_entry(n, equipment_cost, salvage_values, annual_costs, interest_rate) ==
    LET pw_operating == discounted_sum(SubSeq(annual_costs, 1, n), interest_rate, 0)
        pw_salvage == RDiv(R(salvage_values[n]),
                           RPow(RAdd(R(1), interest_rate), n))
        total_pw == RSub(RAdd(R(equipment_cost), pw_operating), pw_salvage)
    IN  [year |-> n,
         equivalent_annual_cost |->
             RDiv(total_pw, present_worth_annuity_factor(interest_rate, n)),
         present_worth_total |-> total_pw,
         present_worth_operating |-> pw_operating,
         present_worth_salvage |-> pw_salvage]

(* a < b for keys that are numbers or float('inf').                        *)
key_less(a, b) == a # Infinity /\ (b = Infinity \/ RLt(a, b))

min_replaces_on_tie(candidate, best) == ~key_less(best, candidate)

(* Python's min keeps the first of several smallest items: a later item    *)
(* replaces the best one only when its key is strictly smaller.            *)
min_replaces(candidate, best) == key_less(candidate, best)

(* min(range(len(keys)), key=...) of lines 175-176 and min(options,        *)
(* key=...) of line 247, as the index (from 1) of the item returned.       *)
RECURSIVE min_index(_, _, _)
min_index(keys, i, best) ==
    IF i > Len(keys) THEN best
    ELSE min_index(keys, i + 1, IF min_replaces(keys[i], keys[best]) THEN i ELSE best)

(* Lines 151-186; salvage_values is as long as annual_costs.               *)
economic_life_analysis(equipment_cost, salvage_values, annual_costs, interest_rate) ==
    LET years == Len(annual_costs)
        equivalent_annual_costs ==
            [n \in 1..years |-> ela_entry(n, equipment_cost, salvage_values,
                                          annual_costs, interest_rate)]
        keys == [n \in 1..years |-> equivalent_annual_costs[n].equivalent_annual_cost]
        min_eac_index == min_index(keys, 2, 1)
    IN  IF years = 0 THEN Raise("ValueError")
        ELSE [outcome |-> "ok",
              optimal_economic_life |-> equivalent_annual_costs[min_eac_index].year,
              minimum_equivalent_annual_cost |-> keys[min_eac_index],
              eac_analysis |-> equivalent_annual_costs,
              equipment_cost |-> R(equipment_cost),
              interest_rate |-> interest_rate]

(* The locals net_investment and pw_new_operating before the first        *)
(* feasible iteration assigns them.                                        *)
Unassigned == [bound |-> FALSE, net_investment |-> R(0), pw_new_operating |-> R(0)]

(* The first k items of a list, costs[:k].                                 *)
Prefix(costs, k) == SubSeq(costs, 1, IF k < Len(costs) THEN k ELSE Len(costs))

(* Lines 210-244: one pass of the loop for replace_year, args being the    *)
(* call's arguments and carried the two locals as the pass finds them.     *)
(* raises: line 241 or 242 reads a local no pass has assigned.             *)
rt_iteration(args, replace_year, carried) ==
    LET rate == args.interest_rate
        pw_old_cost ==
            IF replace_year = 0 THEN R(0)
            ELSE discounted_sum(Prefix(args.annual_costs_old, replace_year), rate, 0)
        old_salvage ==
            IF replace_year = 0 THEN R(args.current_salvage)
            ELSE RMul(R(args.current_salvage), RPow(Frac(9, 10), replace_year))
        remaining_period == args.max_life - replace_year
        feasible == /\ remaining_period > 0
                    /\ remaining_period <= Len(args.new_annual_costs)
        pw_new_operating ==
            discounted_sum(Prefix(args.new_annual_costs, remaining_period),
                           rate, replace_year)
        new_salvage_pv ==
            RDiv(R(args.new_salvage_values[remaining_period]),
                 RPow(RAdd(R(1), rate), replace_year + remaining_period))
        net_investment ==
            RDiv(RSub(R(args.new_equipment_cost), old_salvage),
                 RPow(RAdd(R(1), rate), replace_year))
        total_pw ==
            IF feasible
            THEN RSub(RAdd(RAdd(pw_old_cost, net_investment), pw_new_operating),
                      new_salvage_pv)
            ELSE Infinity
        now == IF feasible
               THEN [bound |-> TRUE, net_investment |-> net_investment,
                     pw_new_operating |-> pw_new_operating]
               ELSE carried
    IN  [raises |-> remaining_period > 0 /\ ~now.bound,
         carried |-> now,
         option |-> [replace_after_years |-> replace_year,
                     total_present_worth |-> total_pw,
                     old_equipment_cost |-> pw_old_cost,
                     net_investment_pv |->
                         IF remaining_period > 0 THEN now.net_investment ELSE R(0),
                     new_equipment_operating_pv |->
                         IF remaining_period > 0 THEN now.pw_new_operating ELSE R(0),
                     old_salvage_value |-> old_salvage]]

(* Lines 208-244: the loop over range(0, max_life - age + 1).              *)
RECURSIVE rt_loop(_, _, _, _)
rt_loop(args, replace_year, carried, replacement_options) ==
    IF replace_year > args.max_life - args.current_equipment_age
    THEN [raised |-> FALSE, replacement_options |-> replacement_options]
    ELSE LET pass == rt_iteration(args, replace_year, carried)
         IN  IF pass.raises
             THEN [raised |-> TRUE, replacement_options |-> replacement_options]
             ELSE rt_loop(args, replace_year + 1, pass.carried,
                          Append(replacement_options, pass.option))

(* Lines 206-255; new_salvage_values is as long as new_annual_costs.  min  *)
(* of an empty list of options raises ValueError at line 247.              *)
replacement_timing_analysis(args) ==
    LET loop == rt_loop(args, 0, Unassigned, <<>>)
        options == loop.replacement_options
        keys == [i \in 1..Len(options) |-> options[i].total_present_worth]
        optimal_option == options[min_index(keys, 2, 1)]
        optimal_replace_year == optimal_option.replace_after_years
    IN  IF loop.raised THEN Raise("UnboundLocalError")
        ELSE IF options = <<>> THEN Raise("ValueError")
        ELSE [outcome |-> "ok",
              optimal_replacement_year |-> optimal_replace_year,
              minimum_present_worth |-> optimal_option.total_present_worth,
              replacement_analysis |-> options,
              recommendation |->
                  IF optimal_replace_year > 0
                  THEN <<"Replace after", optimal_replace_year, "years">>
                  ELSE <<"Replace immediately">>]

-----------------------------------------------------------------------------
(* Calls of the replacement functions.                                     *)

ReplacementRates == {R(0), Frac(1, 2), R(1)}

(* The lists of at most MaxYears values drawn from a set.                  *)
ListsOf(values) == UNION {[1..n -> values] : n \in 0..MaxYears}

AnnuityFactorInputs ==
    [engine : {"annuity_factor"},
     interest_rate : ReplacementRates,
     periods : 0..MaxYears]

ReplacementInputs ==
    [engine : {"replacement"},
     old_salvage_value : 0..MaxEquipmentCost,
     old_annual_cost : 0..MaxAnnualCost,
     new_equipment_cost : 0..MaxEquipmentCost,
     new_salvage_value : 0..1,
     new_annual_cost : 0..MaxAnnualCost,
     new_equipment_life : 1..MaxYears,
     interest_rate : ReplacementRates,
     analysis_period : {None} \cup {<<p>> : p \in 1..MaxYears}]

(* salvage_values and annual_costs have the same number of years.         *)
EconomicLifeInputs ==
    UNION {[engine : {"economic_life"},
            equipment_cost : 0..MaxEquipmentCost,
            salvage_values : [1..n -> 0..1],
            annual_costs : [1..n -> 0..MaxAnnualCost],
            interest_rate : ReplacementRates] : n \in 0..MaxYears}

(* The lists of n copies of one value drawn from a set.                    *)
ConstantListsOf(values, n) == {[i \in 1..n |-> v] : v \in values}

(* new_salvage_values and new_annual_costs have the same number of years.  *)
TimingInputs ==
    UNION {[engine : {"replacement_timing"},
            current_equipment_age : 0..1,
            max_life : 0..MaxYears,
            current_salvage : 0..1,
            annual_costs_old : ListsOf(1..MaxAnnualCost),
            new_equipment_cost : {0, MaxEquipmentCost},
            new_salvage_values : ConstantListsOf(0..1, n),
            new_annual_costs : ConstantListsOf(1..MaxAnnualCost, n),
            interest_rate : ReplacementRates] : n \in 0..MaxYears}

DepreciationMethods ==
    {"Straight Line", "declining balance", "Sum of Years Digits", "sinking fund",
     "units of production"}

SalvageInputs ==
    [engine : {"salvage"},
     purchase_cost : 0..MaxEquipmentCost,
     depreciation_method : DepreciationMethods,
     useful_life : 0..MaxYears,
     current_age : 0..MaxYears,
     salvage_rate : {R(0), Frac(1, 10), Frac(1, 2)},
     interest_rate : {Frac(1, 10)}]

InitSalvage ==
    /\ input \in SalvageInputs
    /\ fn = "none"
    /\ result = [outcome |-> "none"]
    /\ locals = <<>>

InitReplacement ==
    /\ input \in AnnuityFactorInputs \cup ReplacementInputs
                     \cup EconomicLifeInputs \cup TimingInputs
    /\ fn = "none"
    /\ result = [outcome |-> "none"]
    /\ locals = <<>>

AnnuityFactor ==
    /\ Ready("annuity_factor")
    /\ fn' = "present_worth_annuity_factor"
    /\ result' = [outcome |-> "ok",
                  value |-> present_worth_annuity_factor(input.interest_rate,
                                                         input.periods)]
    /\ UNCHANGED <<input, locals>>

ReplacementAnalysis ==
    /\ Ready("replacement")
    /\ fn' = "replacement_analysis"
    /\ result' = replacement_analysis(R(input.old_salvage_value),
                     R(input.old_annual_cost), R(input.new_equipment_cost),
                     R(input.new_salvage_value), R(input.new_annual_cost),
                     input.new_equipment_life, input.interest_rate,
                     input.analysis_period)
    /\ UNCHANGED <<input, locals>>

EconomicLifeAnalysis ==
    /\ Ready("economic_life")
    /\ fn' = "economic_life_analysis"
    /\ result' = economic_life_analysis(input.equipment_cost, input.salvage_values,
                                        input.annual_costs, input.interest_rate)
    /\ UNCHANGED <<input, locals>>

ReplacementTimingAnalysis ==
    /\ Ready("replacement_timing")
    /\ fn' = "replacement_timing_analysis"
    /\ result' = replacement_timing_analysis(input)
    /\ UNCHANGED <<input, locals>>

CalculateSalvageValue ==
    /\ Ready("salvage")
    /\ fn' = "calculate_salvage_value"
    /\ result' = calculate_salvage_value(R(input.purchase_cost),
                     input.depreciation_method, input.useful_life,
                     input.current_age, input.salvage_rate, input.interest_rate)
    /\ UNCHANGED <<input, locals>>

NextSalvage == CalculateSalvageValue

(* The salvage value of equipment, from its depreciation schedule.         *)
SpecSalvage == InitSalvage /\ [][NextSalvage]_vars

NextReplacement ==
    \/ AnnuityFactor
    \/ ReplacementAnalysis
    \/ EconomicLifeAnalysis
    \/ ReplacementTimingAnalysis

SpecReplacement == InitReplacement /\ [][NextReplacement]_vars

-----------------------------------------------------------------------------
(* Properties of the replacement functions.                                *)

(* The present-worth factor of a uniform series, term by term.             *)
PWF(rate, period) ==
    RSum([t \in 1..period |-> RInv(RPow(RAdd(R(1), rate), t))])

AnalysisPeriod ==
    IF input.analysis_period = None THEN input.new_equipment_life
    ELSE input.analysis_period[1]

(* C14: economic_life_analysis has one entry per candidate life 1..len,    *)
(* the optimal life has an EAC <= every candidate's, it is the smallest    *)
(* life with that EAC, and minimum_equivalent_annual_cost is its EAC.      *)
C14_EconomicLifeIsFirstMinimum ==
    (fn = "economic_life_analysis" /\ Len(input.annual_costs) >= 1) =>
        /\ result.outcome = "ok"
        /\ Len(result.eac_analysis) = Len(input.annual_costs)
        /\ \A n \in 1..Len(input.annual_costs) : result.eac_analysis[n].year = n
        /\ result.optimal_economic_life \in 1..Len(input.annual_costs)
        /\ LET eac(n) == result.eac_analysis[n].equivalent_annual_cost
               best == result.optimal_economic_life
           IN  /\ \A n \in 1..Len(input.annual_costs) : RLe(eac(best), eac(n))
               /\ \A n \in 1..(best - 1) : eac(n) # eac(best)
               /\ result.minimum_equivalent_annual_cost = eac(best)

(* Two lives share the minimum EAC, a third one costs more, and the        *)
(* smaller of the two is returned.                                         *)
C14_Witness ==
    /\ fn = "economic_life_analysis"
    /\ result.outcome = "ok"
    /\ LET eac(n) == result.eac_analysis[n].equivalent_annual_cost
           best == result.optimal_economic_life
       IN  /\ \E n \in (best + 1)..Len(input.annual_costs) : eac(n) = eac(best)
           /\ \E n \in 1..Len(input.annual_costs) : RLt(eac(best), eac(n))
           /\ best > 1

(* C15: replacement_timing_analysis returns one option for every          *)
(* candidate k = 0..max_life (replace after k years); the optimal year is  *)
(* one of them, its total present worth is <= every option's, and          *)
(* minimum_present_worth is that total.                                    *)
C15_TimingCoversAllCandidates ==
    fn = "replacement_timing_analysis" =>
        /\ result.outcome = "ok"
        /\ Len(result.replacement_analysis) = input.max_life + 1
        /\ \A k \in 0..input.max_life :
               result.replacement_analysis[k + 1].replace_after_years = k
        /\ result.optimal_replacement_year \in 0..input.max_life
        /\ LET total(k) == result.replacement_analysis[k + 1].total_present_worth
               best == result.optimal_replacement_year
           IN  /\ \A k \in 0..input.max_life : ~key_less(total(k), total(best))
               /\ result.minimum_present_worth = total(best)

(* The schedule the method of a calculate_salvage_value call builds.       *)
SalvageSchedule ==
    LET cost == R(input.purchase_cost)
        salvage == RMul(cost, input.salvage_rate)
    IN  CASE input.depreciation_method = "declining balance" ->
               declining_balance_depreciation(cost, salvage, input.useful_life, None)
          [] input.depreciation_method = "Sum of Years Digits" ->
               sum_of_years_digits_depreciation(cost, salvage, input.useful_life)
          [] OTHER -> straight_line_depreciation(cost, salvage, input.useful_life)

(* The book value at the end of year age: the purchase cost at age 0.      *)
ScheduleBookValue(age) ==
    IF age = 0 THEN R(input.purchase_cost)
    ELSE SalvageSchedule.depreciation_table[age].Book_Value

SalvageBookValueAt(age) ==
    calculate_salvage_value(R(input.purchase_cost), input.depreciation_method,
        input.useful_life, age, input.salvage_rate, input.interest_rate).book_value

(* C26: for the straight-line, declining-balance and sum-of-years-digits   *)
(* methods and 0 <= current_age < useful_life, calculate_salvage_value     *)
(* returns the schedule's book value at the end of year current_age (the   *)
(* purchase cost, with no accumulated depreciation, at age 0), and a later *)
(* age never has a higher book value.                                      *)
C26_SalvageFollowsSchedule ==
    (/\ fn = "calculate_salvage_value"
     /\ input.depreciation_method
           \in {"Straight Line", "declining balance", "Sum of Years Digits"}
     /\ input.current_age < input.useful_life)
        => /\ result.outcome = "ok"
           /\ result.book_value = ScheduleBookValue(input.current_age)
           /\ input.current_age = 0
                 => /\ result.book_value = R(input.purchase_cost)
                    /\ RIsZero(result.accumulated_depreciation)
           /\ \A later \in (input.current_age + 1)..(input.useful_life - 1) :
                 RLe(SalvageBookValueAt(later), result.book_value)

(* Candidate k of a replacement_timing_analysis call cannot be costed:     *)
(* its remaining period is <= 0 or longer than new_annual_costs.           *)
Infeasible(k) ==
    \/ input.max_life - k <= 0
    \/ input.max_life - k > Len(input.new_annual_costs)

(* C27: replacement_timing_analysis completes with one option per          *)
(* candidate; a candidate whose remaining period is <= 0 or exceeds        *)
(* len(new_annual_costs) is recorded with total_present_worth = infinity,  *)
(* and it is not the optimal one while a feasible candidate exists.        *)
C27_InfeasibleOptionsRecorded ==
    (/\ fn = "replacement_timing_analysis"
     /\ input.current_equipment_age <= input.max_life)
        => LET last == input.max_life - input.current_equipment_age
               option(k) == result.replacement_analysis[k + 1]
           IN  /\ result.outcome = "ok"
               /\ Len(result.replacement_analysis) = last + 1
               /\ \A k \in 0..last :
                     /\ option(k).replace_after_years = k
                     /\ Infeasible(k) <=> option(k).total_present_worth = Infinity
               /\ (\E k \in 0..last : ~Infeasible(k))
                     => ~Infeasible(result.optimal_replacement_year)

(* C16: replacement_analysis computes present_worth_new = (new cost - old  *)
(* salvage) + new annual cost * PWF - new salvage / (1+rate)^period,       *)
(* present_worth_old = old annual cost * PWF, net_savings = old - new, and *)
(* recommends "Replace" iff net_savings > 0; period is analysis_period, or *)
(* new_equipment_life when it is omitted.                                  *)
C16_ReplacementAnalysisFormulas ==
    fn = "replacement_analysis" =>
        LET factor == PWF(input.interest_rate, AnalysisPeriod)
            new == RSub(RAdd(R(input.new_equipment_cost - input.old_salvage_value),
                             RMul(R(input.new_annual_cost), factor)),
                        RDiv(R(input.new_salvage_value),
                             RPow(RAdd(R(1), input.interest_rate), AnalysisPeriod)))
            old == RMul(R(input.old_annual_cost), factor)
        IN  /\ result.outcome = "ok"
            /\ result.analysis_period = AnalysisPeriod
            /\ result.present_worth_new = new
            /\ result.present_worth_old = old
            /\ result.net_savings = RSub(old, new)
            /\ result.recommendation = "Replace" <=> RLt(R(0), result.net_savings)
            /\ result.recommendation \in {"Replace", "Keep Old"}

(* Equal present worths at a positive rate, the period taken from          *)
(* new_equipment_life: net savings of exactly 0 keep the old equipment.    *)
C16_Witness ==
    /\ fn = "replacement_analysis"
    /\ input.analysis_period = None
    /\ RLt(R(0), input.interest_rate)
    /\ input.new_equipment_life >= 2
    /\ ~RIsZero(result.present_worth_new)
    /\ RIsZero(result.net_savings)
    /\ result.recommendation = "Keep Old"

-----------------------------------------------------------------------------
(* Cost estimation: src/calculations/cost_estimation.py.                   *)

MaxBaseCost == 2
MaxCapacity == 2
MaxSales == 2

(* Lines 18-32, for an integer scaling_exponent >= 0 (a fractional power   *)
(* such as the default 0.6 is not a rational number).  base_cost = 0       *)
(* divides by zero at line 23 and new_capacity = 0 at line 31.             *)
scaling_law_cost(base_cost, base_capacity, new_capacity, scaling_exponent) ==
    IF base_capacity = 0
    THEN [outcome |-> "ok", error |-> "Base capacity cannot be zero"]
    ELSE LET capacity_ratio == Frac(new_capacity, base_capacity)
             new_cost == RMul(R(base_cost), RPow(capacity_ratio, scaling_exponent))
         IN  IF base_cost = 0 \/ new_capacity = 0 THEN Raise("ZeroDivisionError")
             ELSE [outcome |-> "ok",
                   new_cost |-> new_cost,
                   base_cost |-> R(base_cost),
                   capacity_ratio |-> capacity_ratio,
                   cost_ratio |-> RDiv(new_cost, R(base_cost)),
                   scaling_exponent |-> scaling_exponent,
                   cost_per_unit_capacity |-> RDiv(new_cost, R(new_capacity))]

(* sum(equipment_costs) of line 47.                                        *)
sum_of_costs(equipment_costs) ==
    RSum([i \in 1..Len(equipment_costs) |-> R(equipment_costs[i])])

lang_plant_cost_added(lang_factor, total_equipment_cost) ==
    RAdd(lang_factor, total_equipment_cost)

(* Line 49.                                                                *)
lang_plant_cost(lang_factor, total_equipment_cost) ==
    RMul(lang_factor, total_equipment_cost)

(* Lines 49-59, from the total equipment cost lines 44-47 arrive at: the   *)
(* number given, or the sum of the list given.  A total plant cost of 0    *)
(* divides by zero at line 57.                                             *)
lang_factor_estimate(total_equipment_cost, lang_factor) ==
    LET total_plant_cost == lang_plant_cost(lang_factor, total_equipment_cost)
        installation_cost == RSub(total_plant_cost, total_equipment_cost)
    IN  IF RIsZero(total_plant_cost) THEN Raise("ZeroDivisionError")
        ELSE [outcome |-> "ok",
              total_plant_cost |-> total_plant_cost,
              total_equipment_cost |-> total_equipment_cost,
              installation_cost |-> installation_cost,
              lang_factor |-> lang_factor,
              equipment_percentage |->
                  RMul(RDiv(total_equipment_cost, total_plant_cost), R(100)),
              installation_percentage |->
                  RMul(RDiv(installation_cost, total_plant_cost), R(100))]

(* The categories of lines 74-83, in the order the dict holds them.        *)
Categories ==
    <<"equipment", "installation", "instrumentation", "piping", "electrical",
      "buildings", "utilities", "site_preparation", "engineering", "contingency">>

CategorySet == {Categories[i] : i \in 1..Len(Categories)}

(* Lines 73-84.                                                            *)
ChemicalProcessingFactors ==
    [c \in CategorySet |->
        CASE c = "equipment" -> R(1)
          [] c = "installation" -> Frac(45, 100)
          [] c = "instrumentation" -> Frac(25, 100)
          [] c = "piping" -> Frac(35, 100)
          [] c = "electrical" -> Frac(15, 100)
          [] c = "buildings" -> Frac(20, 100)
          [] c = "utilities" -> Frac(30, 100)
          [] c = "site_preparation" -> Frac(10, 100)
          [] c = "engineering" -> Frac(25, 100)
          [] c = "contingency" -> Frac(15, 100)]

(* Lines 85-96.                                                            *)
PetrochemicalFactors ==
    [c \in CategorySet |->
        CASE c = "equipment" -> R(1)
          [] c = "installation" -> Frac(40, 100)
          [] c = "instrumentation" -> Frac(30, 100)
          [] c = "piping" -> Frac(40, 100)
          [] c = "electrical" -> Frac(20, 100)
          [] c = "buildings" -> Frac(15, 100)
          [] c = "utilities" -> Frac(35, 100)
          [] c = "site_preparation" -> Frac(8, 100)
          [] c = "engineering" -> Frac(30, 100)
          [] c = "contingency" -> Frac(20, 100)]

(* Lines 99-102: an unknown industry type falls back to the first set.     *)
factor_set_of(industry_type) ==
    IF industry_type = "Petrochemical" THEN PetrochemicalFactors
    ELSE ChemicalProcessingFactors

industry_type_used(industry_type) ==
    IF industry_type = "Petrochemical" THEN "Petrochemical"
    ELSE "Chemical Processing"

category_cost_without_equipment(equipment_cost, factor) ==
    IF factor = R(1) THEN R(0) ELSE RMul(R(equipment_cost), factor)

(* Line 108.                                                               *)
category_cost(equipment_cost, factor) == RMul(R(equipment_cost), factor)

(* Lines 104-121.  A total of 0 divides by zero at line 113.               *)
detailed_cost_breakdown(equipment_cost, industry_type) ==
    LET factor_set == factor_set_of(industry_type)
        costs == [c \in CategorySet |-> category_cost(equipment_cost, factor_set[c])]
        total_cost == RSum([i \in 1..Len(Categories) |-> costs[Categories[i]]])
    IN  IF RIsZero(total_cost) THEN Raise("ZeroDivisionError")
        ELSE [outcome |-> "ok",
              costs |-> costs,
              percentages |->
                  [c \in CategorySet |-> RMul(RDiv(costs[c], total_cost), R(100))],
              total_fixed_capital |-> total_cost,
              equipment_cost |-> R(equipment_cost),
              industry_type |-> industry_type_used(industry_type)]

(* Lines 133-149.                                                          *)
working_capital_estimate(annual_sales, working_capital_factor) ==
    LET working_capital == RMul(R(annual_sales), working_capital_factor)
    IN  [outcome |-> "ok",
         total_working_capital |-> working_capital,
         raw_materials_inventory |-> RMul(working_capital, Frac(30, 100)),
         finished_goods_inventory |-> RMul(working_capital, Frac(25, 100)),
         accounts_receivable |-> RMul(working_capital, Frac(35, 100)),
         cash_on_hand |-> RMul(working_capital, Frac(10, 100)),
         working_capital_factor |-> working_capital_factor,
         annual_sales |-> R(annual_sales)]

capital_total_fixed_only(fixed_total, working_total) == fixed_total

(* Line 166.                                                               *)
capital_total(fixed_total, working_total) == RAdd(fixed_total, working_total)

(* Lines 163-176.  An exception of detailed_cost_breakdown passes through; *)
(* a total of 0 divides by zero at line 174.                               *)
total_capital_investment(equipment_cost, industry_type, annual_sales, working_capital_factor) ==
    LET fixed_capital == detailed_cost_breakdown(equipment_cost, industry_type)
        working_capital == working_capital_estimate(annual_sales, working_capital_factor)
        total_investment == capital_total(fixed_capital.total_fixed_capital,
                                          working_capital.total_working_capital)
    IN  IF fixed_capital.outcome = "raise" THEN fixed_capital
        ELSE IF RIsZero(total_investment) THEN Raise("ZeroDivisionError")
        ELSE [outcome |-> "ok",
              total_capital_investment |-> total_investment,
              fixed_capital_investment |-> fixed_capital.total_fixed_capital,
              working_capital |-> working_capital.total_working_capital,
              fixed_capital_breakdown |-> fixed_capital,
              working_capital_breakdown |-> working_capital,
              fixed_capital_percentage |->
                  RMul(RDiv(fixed_capital.total_fixed_capital, total_investment),
                       R(100)),
              working_capital_percentage |->
                  RMul(RDiv(working_capital.total_working_capital, total_investment),
                       R(100))]

-----------------------------------------------------------------------------
(* Calls of the cost estimation functions.                                 *)

ScalingInputs ==
    [engine : {"scaling_law"},
     base_cost : 0..MaxBaseCost,
     base_capacity : (-1)..MaxCapacity,
     new_capacity : (-1)..MaxCapacity,
     scaling_exponent : 0..2]

LangFactors == {R(0), R(1), R(3), Frac(47, 10)}

(* lang_factor_estimate given one number.                                  *)
LangNumberInputs ==
    [engine : {"lang_factor_number"},
     equipment_cost : 0..MaxBaseCost,
     lang_factor : LangFactors]

(* lang_factor_estimate given a list of at most two costs.                 *)
LangListInputs ==
    [engine : {"lang_factor_list"},
     equipment_costs : UNION {[1..n -> 0..MaxBaseCost] : n \in 0..2},
     lang_factor : LangFactors]

IndustryTypes == {"Chemical Processing", "Petrochemical", "Food Processing"}

WorkingCapitalFactors == {Frac(15, 100), Frac(1, 5)}

CapitalInputs ==
    [engine : {"capital"},
     equipment_cost : 0..MaxBaseCost,
     industry_type : IndustryTypes,
     annual_sales : 0..MaxSales,
     working_capital_factor : WorkingCapitalFactors]

InitCostEstimation ==
    /\ input \in ScalingInputs \cup LangNumberInputs \cup LangListInputs
                     \cup CapitalInputs
    /\ fn = "none"
    /\ result = [outcome |-> "none"]
    /\ locals = <<>>

ScalingLawCost ==
    /\ Ready("scaling_law")
    /\ fn' = "scaling_law_cost"
    /\ result' = scaling_law_cost(input.base_cost, input.base_capacity,
                                  input.new_capacity, input.scaling_exponent)
    /\ UNCHANGED <<input, locals>>

LangFactorOfNumber ==
    /\ Ready("lang_factor_number")
    /\ fn' = "lang_factor_estimate"
    /\ result' = lang_factor_estimate(R(input.equipment_cost), input.lang_factor)
    /\ UNCHANGED <<input, locals>>

LangFactorOfList ==
    /\ Ready("lang_factor_list")
    /\ fn' = "lang_factor_estimate"
    /\ result' = lang_factor_estimate(sum_of_costs(input.equipment_costs),
                                      input.lang_factor)
    /\ UNCHANGED <<input, locals>>

(* A function is called once per combination of the arguments it takes:   *)
(* the capital inputs it does not read are held at one value.              *)
DetailedCostBreakdown ==
    /\ Ready("capital")
    /\ input.annual_sales = 0
    /\ input.working_capital_factor = Frac(15, 100)
    /\ fn' = "detailed_cost_breakdown"
    /\ result' = detailed_cost_breakdown(input.equipment_cost, input.industry_type)
    /\ UNCHANGED <<input, locals>>

WorkingCapitalEstimate ==
    /\ Ready("capital")
    /\ input.equipment_cost = 0
    /\ input.industry_type = "Chemical Processing"
    /\ fn' = "working_capital_estimate"
    /\ result' = working_capital_estimate(input.annual_sales,
                                          input.working_capital_factor)
    /\ UNCHANGED <<input, locals>>

TotalCapitalInvestment ==
    /\ Ready("capital")
    /\ fn' = "total_capital_investment"
    /\ result' = total_capital_investment(input.equipment_cost, input.industry_type,
                      input.annual_sales, input.working_capital_factor)
    /\ UNCHANGED <<input, locals>>

NextCostEstimation ==
    \/ ScalingLawCost
    \/ LangFactorOfNumber
    \/ LangFactorOfList
    \/ DetailedCostBreakdown
    \/ WorkingCapitalEstimate
    \/ TotalCapitalInvestment

SpecCostEstimation == InitCostEstimation /\ [][NextCostEstimation]_vars

-----------------------------------------------------------------------------
(* Properties of the cost estimation functions.                            *)

(* C22: scaling_law_cost ends in an error, with no computed cost, when     *)
(* base_capacity = 0 or a capacity is negative; for positive capacities    *)
(* and base cost new_cost = base_cost * (new/base)^exponent and            *)
(* cost_ratio = new_cost / base_cost.                                      *)
C22_ScalingLawDomain ==
    fn = "scaling_law_cost" =>
        /\ (input.base_capacity <= 0 \/ input.new_capacity < 0)
              => /\ (result.outcome = "raise" \/ "error" \in DOMAIN result)
                 /\ "new_cost" \notin DOMAIN result
        /\ (input.base_capacity > 0 /\ input.new_capacity > 0 /\ input.base_cost > 0)
              => /\ result.outcome = "ok"
                 /\ "error" \notin DOMAIN result
                 /\ result.new_cost
                       = RMul(R(input.base_cost),
                              RPow(Frac(input.new_capacity, input.base_capacity),
                                   input.scaling_exponent))
                 /\ RMul(result.cost_ratio, R(input.base_cost)) = result.new_cost

(* The total equipment cost a lang_factor_estimate call was given.         *)
LangTotal ==
    IF input.engine = "lang_factor_number" THEN R(input.equipment_cost)
    ELSE sum_of_costs(input.equipment_costs)

(* C23: with total equipment cost > 0 and lang factor > 0,                 *)
(* total_plant_cost = lang_factor * total equipment cost (the sum of a     *)
(* list), installation_cost = total_plant_cost - total equipment cost and  *)
(* the two percentages sum to 100.                                         *)
C23_LangFactorEstimate ==
    (/\ fn = "lang_factor_estimate"
     /\ RLt(R(0), LangTotal)
     /\ RLt(R(0), input.lang_factor))
        => /\ result.outcome = "ok"
           /\ result.total_equipment_cost = LangTotal
           /\ result.total_plant_cost = RMul(input.lang_factor, LangTotal)
           /\ result.installation_cost = RSub(result.total_plant_cost, LangTotal)
           /\ RAdd(result.equipment_percentage, result.installation_percentage)
                 = R(100)

(* A list of two positive costs under a fractional Lang factor.            *)
C23_Witness ==
    /\ fn = "lang_factor_estimate"
    /\ input.engine = "lang_factor_list"
    /\ Len(input.equipment_costs) = 2
    /\ input.equipment_costs[1] > 0
    /\ input.equipment_costs[2] > 0
    /\ input.lang_factor = Frac(47, 10)
    /\ RLt(R(0), result.installation_cost)
    /\ RAdd(result.equipment_percentage, result.installation_percentage) = R(100)

(* The sum of f over the categories.                                       *)
CategorySum(f) == RSum([i \in 1..Len(Categories) |-> f[Categories[i]]])

(* C24: with equipment_cost > 0 and any industry type, each category cost  *)
(* is equipment_cost times the category's multiplier, total_fixed_capital  *)
(* is the sum of the category costs and the percentages sum to 100.        *)
C24_DetailedBreakdown ==
    (fn = "detailed_cost_breakdown" /\ input.equipment_cost > 0)
        => /\ result.outcome = "ok"
           /\ \A c \in CategorySet :
                 result.costs[c]
                    = RMul(R(input.equipment_cost), factor_set_of(input.industry_type)[c])
           /\ result.total_fixed_capital = CategorySum(result.costs)
           /\ CategorySum(result.percentages) = R(100)

(* An industry type without a factor set of its own is costed with the     *)
(* chemical-processing multipliers.                                        *)
C24_Witness ==
    /\ fn = "detailed_cost_breakdown"
    /\ input.equipment_cost > 1
    /\ input.industry_type = "Food Processing"
    /\ result.industry_type = "Chemical Processing"
    /\ result.costs["piping"] = RMul(R(input.equipment_cost), Frac(35, 100))
    /\ CategorySum(result.percentages) = R(100)

(* C25: total_capital_investment returns fixed + working = total, the two  *)
(* parts being the totals of detailed_cost_breakdown and                   *)
(* working_capital_estimate (whose components at 30/25/35/10 percent sum   *)
(* to total_working_capital), and the two percentages sum to 100 when the  *)
(* total is positive.                                                      *)
C25_TotalCapitalInvestment ==
    (fn = "total_capital_investment" /\ input.equipment_cost > 0)
        => LET fixed == detailed_cost_breakdown(input.equipment_cost,
                                                input.industry_type)
               working == working_capital_estimate(input.annual_sales,
                                                   input.working_capital_factor)
           IN  /\ result.outcome = "ok"
               /\ result.fixed_capital_breakdown = fixed
               /\ result.working_capital_breakdown = working
               /\ result.fixed_capital_investment = fixed.total_fixed_capital
               /\ result.working_capital = working.total_working_capital
               /\ RAdd(result.fixed_capital_investment, result.working_capital)
                     = result.total_capital_investment
               /\ working.raw_materials_inventory
                     = RMul(working.total_working_capital, Frac(30, 100))
               /\ working.finished_goods_inventory
                     = RMul(working.total_working_capital, Frac(25, 100))
               /\ working.accounts_receivable
                     = RMul(working.total_working_capital, Frac(35, 100))
               /\ working.cash_on_hand
                     = RMul(working.total_working_capital, Frac(10, 100))
               /\ RSum(<<working.raw_materials_inventory,
                         working.finished_goods_inventory,
                         working.accounts_receivable,
                         working.cash_on_hand>>) = working.total_working_capital
               /\ RLt(R(0), result.total_capital_investment)
                     => RAdd(result.fixed_capital_percentage,
                             result.working_capital_percentage) = R(100)

(* Both parts of the investment are positive.                              *)
C25_Witness ==
    /\ fn = "total_capital_investment"
    /\ input.equipment_cost > 0
    /\ input.annual_sales > 0
    /\ RLt(R(0), result.working_capital)
    /\ RLt(result.fixed_capital_investment, result.total_capital_investment)
    /\ RAdd(result.fixed_capital_percentage, result.working_capital_percentage)
          = R(100)

-----------------------------------------------------------------------------
(* The functions that value a uniform series, one of each module: the      *)
(* calls of uniform_series_present_worth, uniform_series_future_worth,     *)
(* present_worth_annuity_factor and calculate_npv_uniform.                 *)

InitUniformSeries ==
    /\ input \in InterestInputs \cup AnnuityFactorInputs \cup ProfitabilityInputs
    /\ fn = "none"
    /\ result = [outcome |-> "none"]
    /\ locals = <<>>

NextUniformSeries ==
    \/ UniformSeriesPresentWorth
    \/ UniformSeriesFutureWorth
    \/ AnnuityFactor
    \/ NpvUniform

SpecUniformSeries == InitUniformSeries /\ [][NextUniformSeries]_vars


(* C18: at rate 0 and n >= 1 periods, uniform_series_present_worth and     *)
(* uniform_series_future_worth return A*n, present_worth_annuity_factor    *)
(* returns n, and calculate_npv_uniform discounts nothing (inflows A*n,    *)
(* factor n); each call completes, nothing divides by zero.                *)
C18_ZeroRateBoundary ==
    /\ (/\ fn \in {"uniform_series_present_worth", "uniform_series_future_worth"}
        /\ RIsZero(input.interest_rate)
        /\ input.time_periods >= 1)
           => /\ result.outcome = "ok"
              /\ result.value = R(input.principal * input.time_periods)
    /\ (/\ fn = "present_worth_annuity_factor"
        /\ RIsZero(input.interest_rate)
        /\ input.periods >= 1)
           => /\ result.outcome = "ok"
              /\ result.value = R(input.periods)
    /\ (fn = "calculate_npv_uniform" /\ RIsZero(input.discount_rate))
           => /\ result.outcome = "ok"
              /\ result.pw_factor = R(input.project_life)
              /\ result.total_pv_inflows
                     = R(input.annual_cash_flow * input.project_life)
              /\ result.npv = RSub(R(input.annual_cash_flow * input.project_life),
                                   input.initial_investment)

(* An annuity of several payments of more than 1 valued at rate 0.         *)
C18_Witness ==
    /\ fn = "uniform_series_present_worth"
    /\ RIsZero(input.interest_rate)
    /\ input.time_periods >= 2
    /\ input.principal >= 2
    /\ result.value = R(input.principal * input.time_periods)

-----------------------------------------------------------------------------

Init == InitDepreciation \/ InitBreakeven \/ InitProfitability \/ InitInterest
          \/ InitReplacement \/ InitCostEstimation \/ InitSalvage

Next == NextDepreciation \/ NextBreakeven \/ NextProfitability \/ NextInterest
          \/ NextReplacement \/ NextCostEstimation \/ NextSalvage

Spec == Init /\ [][Next]_vars

====
